---- MODULE Spec2Model ----
(***************************************************************************)
(* Model of the Tableau workbook cleanup validator                         *)
(* (claude-skill/scripts/validate_cleanup.py) and of the comment batch     *)
(* tracker (scripts/batch_comments.py).                                    *)
(*                                                                         *)
(* A Python str is a sequence of characters; a character is a one-letter   *)
(* TLA+ string.  The characters U+1F300..U+1F9FF are written "E1", "E2",   *)
(* ... (one atom per emoji).  Python's None is the one-element sequence    *)
(* None, which no str of the model equals.                                 *)
(***************************************************************************)
EXTENDS Integers, Sequences, FiniteSets, TLC

VARIABLES pc, argv, existing, file, twb_path, backup_path, original_path,
          raw_formulas, root, calculations, idx, errors, passes, exit_code,
          call, ret, batch_file

vars == <<pc, argv, existing, file, twb_path, backup_path, original_path,
          raw_formulas, root, calculations, idx, errors, passes, exit_code,
          call, ret, batch_file>>

None == <<"None">>

\* .cleanup/comment_batches.json does not exist
NoBatchFile == [exists |-> FALSE, total_calcs |-> 0, batches |-> <<>>]

(***************************************************************************)
(* Python str primitives (ASCII behaviour)                                 *)
(***************************************************************************)
LowerLetters == <<"a","b","c","d","e","f","g","h","i","j","k","l","m",
                  "n","o","p","q","r","s","t","u","v","w","x","y","z">>

UpperLetters == <<"A","B","C","D","E","F","G","H","I","J","K","L","M",
                  "N","O","P","Q","R","S","T","U","V","W","X","Y","Z">>

Digits == {"0","1","2","3","4","5","6","7","8","9"}

EmojiChars == {"E1","E2","E3","E4","E5","E6","E7","E8","E9"}

IsLowerChar(c) == \E i \in 1..26 : LowerLetters[i] = c

IsUpperChar(c) == \E i \in 1..26 : UpperLetters[i] = c

UpperChar(c) ==
    IF IsLowerChar(c)
    THEN UpperLetters[CHOOSE i \in 1..26 : LowerLetters[i] = c]
    ELSE c

LowerChar(c) ==
    IF IsUpperChar(c)
    THEN LowerLetters[CHOOSE i \in 1..26 : UpperLetters[i] = c]
    ELSE c

Upper(s) == [i \in 1..Len(s) |-> UpperChar(s[i])]

Lower(s) == [i \in 1..Len(s) |-> LowerChar(s[i])]

IsSpace(c) == c \in {" ", "\n", "\t", "\r"}

\* regex \w
IsWordChar(c) == IsLowerChar(c) \/ IsUpperChar(c) \/ c \in Digits \/ c = "_"

\* s[i:i+len(sub)] == sub
MatchAt(s, i, sub) ==
    /\ i >= 1
    /\ i + Len(sub) - 1 <= Len(s)
    /\ \A k \in 1..Len(sub) : s[i + k - 1] = sub[k]

\* sub in s
Contains(s, sub) == \E i \in 1..(Len(s) + 1) : MatchAt(s, i, sub)

\* s.startswith(p)
StartsWith(s, p) == MatchAt(s, 1, p)

RECURSIVE ReplaceFrom(_, _, _, _)
ReplaceFrom(s, i, old, new) ==
    IF i > Len(s) THEN <<>>
    ELSE IF MatchAt(s, i, old)
         THEN new \o ReplaceFrom(s, i + Len(old), old, new)
         ELSE <<s[i]>> \o ReplaceFrom(s, i + 1, old, new)

\* s.replace(old, new), old non-empty
Replace(s, old, new) == ReplaceFrom(s, 1, old, new)

RECURSIVE LStrip(_)
LStrip(s) ==
    IF s # <<>> /\ IsSpace(Head(s)) THEN LStrip(Tail(s)) ELSE s

RECURSIVE RStrip(_)
RStrip(s) ==
    IF s # <<>> /\ IsSpace(s[Len(s)])
    THEN RStrip(SubSeq(s, 1, Len(s) - 1))
    ELSE s

\* s.strip()
Strip(s) == RStrip(LStrip(s))

RECURSIVE SplitFrom(_, _, _, _)
SplitFrom(s, i, cur, acc) ==
    IF i > Len(s)
    THEN IF cur = <<>> THEN acc ELSE Append(acc, cur)
    ELSE IF IsSpace(s[i])
         THEN SplitFrom(s, i + 1, <<>>,
                        IF cur = <<>> THEN acc ELSE Append(acc, cur))
         ELSE SplitFrom(s, i + 1, Append(cur, s[i]), acc)

\* s.split(): split on runs of whitespace, no empty words
Split(s) == SplitFrom(s, 1, <<>>, <<>>)

RECURSIVE Join(_, _)
Join(words, sep) ==
    IF words = <<>> THEN <<>>
    ELSE IF Len(words) = 1 THEN words[1]
    ELSE words[1] \o sep \o Join(Tail(words), sep)

\* position of the first occurrence of sub in s, 0 when there is none
FirstIndex(s, sub) ==
    IF Contains(s, sub)
    THEN CHOOSE i \in 1..(Len(s) + 1) :
            /\ MatchAt(s, i, sub)
            /\ \A j \in 1..(i - 1) : ~MatchAt(s, j, sub)
    ELSE 0

\* s.split(sep)[0]
SplitFirst(s, sep) ==
    IF Contains(s, sep) THEN SubSeq(s, 1, FirstIndex(s, sep) - 1) ELSE s

CapitalizeSwap(word) ==
    IF word = <<>> THEN <<>>
    ELSE <<(IF IsLowerChar(word[1]) THEN UpperChar(word[1])
            ELSE LowerChar(word[1]))>>
         \o Lower(Tail(word))

\* word.capitalize()
Capitalize(word) ==
    IF word = <<>> THEN <<>>
    ELSE <<UpperChar(word[1])>> \o Lower(Tail(word))

(***************************************************************************)
(* Rule tables                                                             *)
(***************************************************************************)
ACRONYMS ==
    { <<"I","D">>, <<"Y","T","D">>, <<"M","T","D">>, <<"Q","T","D">>,
      <<"K","P","I">>, <<"R","O","I">>, <<"Y","O","Y">>, <<"M","O","M">>,
      <<"W","O","W">>, <<"L","O","D">>, <<"R","L","S">>, <<"A","P","I">>,
      <<"U","R","L">>, <<"S","Q","L">>, <<"A","V","G">>, <<"S","U","M">>,
      <<"M","I","N">>, <<"M","A","X">> }

MAX_FOLDERS == 6

MIN_COMMENT_LENGTH == 15

(***************************************************************************)
(* to_title_case                                                           *)
(***************************************************************************)
TitleWord(word) ==
    IF Upper(word) \in ACRONYMS THEN Upper(word) ELSE Capitalize(word)

to_title_case(text) ==
    LET words == Split(Replace(text, <<"_">>, <<" ">>))
    IN  Join([i \in 1..Len(words) |-> TitleWord(words[i])], <<" ">>)

(***************************************************************************)
(* ValidationResult: error() and passed() append one formatted line        *)
(* '[ERROR] rule: "field" - message'.  A line is kept as the record of     *)
(* the three values interpolated into it; a message is a tuple of its      *)
(* fixed text and the values interpolated into that.                       *)
(***************************************************************************)
Entry(rule, field, message) ==
    [rule |-> rule, field |-> field, message |-> message]

\* a or b, for str-or-None operands
Or(a, b) == IF a # None /\ a # <<>> THEN a ELSE b

\* truthiness of a str-or-None value
Truthy(a) == a # None /\ a # <<>>

has_errors(errs) == Len(errs) > 0

\* the new entries put in front of the list
ExtendFront(entries, new) == new \o entries

\* ValidationResult.error and .passed (lines 61-65): list.append of each
\* new entry, in the order the calls are made
Extend(entries, new) == entries \o new

RECURSIVE SetToSeqs(_)
\* every order in which a set can be iterated
SetToSeqs(S) ==
    IF S = {} THEN { <<>> }
    ELSE UNION { { <<x>> \o rest : rest \in SetToSeqs(S \ {x}) } : x \in S }

(***************************************************************************)
(* validate_caption                                                        *)
(***************************************************************************)
\* re.compile(rf'\b{acronym}\b', re.IGNORECASE) matches at position p
AcronymMatchAt(caption, p, acronym) ==
    /\ p + Len(acronym) - 1 <= Len(caption)
    /\ \A k \in 1..Len(acronym) : UpperChar(caption[p + k - 1]) = acronym[k]
    /\ (p = 1 \/ ~IsWordChar(caption[p - 1]))
    /\ (p + Len(acronym) - 1 = Len(caption)
        \/ ~IsWordChar(caption[p + Len(acronym)]))

\* pattern.search(caption): the text of the leftmost match, or None
AcronymSearch(caption, acronym) ==
    LET ps == { p \in 1..Len(caption) : AcronymMatchAt(caption, p, acronym) }
    IN  IF ps = {} THEN None
        ELSE LET p == CHOOSE q \in ps : \A r \in ps : q <= r
             IN  SubSeq(caption, p, p + Len(acronym) - 1)

\* re.search(r'\)\s*\(', caption)
HasDoubleParens(caption) ==
    \E i \in 1..Len(caption) : \E j \in (i + 1)..Len(caption) :
        /\ caption[i] = ")"
        /\ caption[j] = "("
        /\ \A k \in (i + 1)..(j - 1) : IsSpace(caption[k])

C1Errors(caption, display_name) ==
    LET expected == to_title_case(caption)
    IN  IF /\ caption # expected
           /\ Lower(caption) # Lower(expected)
           /\ Lower(Replace(caption, <<" ">>, <<>>))
                = Lower(Replace(expected, <<" ">>, <<>>))
        THEN << Entry("C1", display_name, <<"should be", expected>>) >>
        ELSE <<>>

\* the acronyms for which the C4 branch records an error
C4Acronyms(caption) ==
    { a \in ACRONYMS :
        /\ AcronymSearch(caption, a) # None
        /\ AcronymSearch(caption, a) # a }

\* ACRONYMS is a set of str: its iteration order is not fixed by the
\* program, so the C4 errors of one caption come in the order `order`,
\* a sequence listing C4Acronyms(caption)
C4Errors(caption, display_name, order) ==
    [i \in 1..Len(order) |->
        Entry("C4", display_name,
              <<"should be", AcronymSearch(caption, order[i]), order[i]>>)]

\* the entries validate_caption appends to result.errors
validate_caption(caption, name, order) ==
    LET display_name == Or(caption, name)
    IN  IF ~Truthy(caption) THEN <<>>
        ELSE C1Errors(caption, display_name)
             \o (IF Contains(caption, <<"_">>)
                 THEN << Entry("C2", display_name, <<"contains underscore">>) >>
                 ELSE <<>>)
             \o (IF StartsWith(Lower(caption), <<"c","_">>)
                 THEN << Entry("C3", display_name,
                               <<"has deprecated c_ prefix">>) >>
                 ELSE <<>>)
             \o C4Errors(caption, display_name, order)
             \o (IF HasDoubleParens(caption)
                 THEN << Entry("C5", display_name,
                               <<"has double parentheses">>) >>
                 ELSE <<>>)

CaptionOrders(caption) ==
    IF Truthy(caption) THEN SetToSeqs(C4Acronyms(caption)) ELSE { <<>> }

(***************************************************************************)
(* Regular expressions: a pattern is followed through the text as the set  *)
(* of positions its matches can have reached (position p = before s[p]).   *)
(***************************************************************************)
\* a literal, re.IGNORECASE (w in lower case)
ReLit(s, P, w) ==
    { p + Len(w) : p \in { q \in P :
          /\ q + Len(w) - 1 <= Len(s)
          /\ \A k \in 1..Len(w) : LowerChar(s[q + k - 1]) = w[k] } }

\* (w1|w2|...)
ReAlt(s, P, ws) == UNION { ReLit(s, P, w) : w \in ws }

\* \s* (min = 0) and \s+ (min = 1)
ReSpaces(s, P, min) ==
    { q \in 1..(Len(s) + 1) : \E p \in P :
          /\ q >= p + min
          /\ \A k \in p..(q - 1) : IsSpace(s[k]) }

\* \w{lo,hi}
ReWordChars(s, P, lo, hi) ==
    { q \in 1..(Len(s) + 1) : \E p \in P :
          /\ (q - p) \in lo..hi
          /\ \A k \in p..(q - 1) : IsWordChar(s[k]) }

\* \d
ReDigit(s, P) == { p + 1 : p \in { q \in P : q <= Len(s) /\ s[q] \in Digits } }

\* $
ReEnd(s, P) ==
    \E p \in P : p = Len(s) + 1 \/ (p = Len(s) /\ s[p] = "\n")

\* ^//\s*
ReMarker(s) == ReSpaces(s, ReLit(s, {1}, <<"/","/">>), 0)

\* ^//\s*(calculated\s+field|calculation|formula|field)\s*$
LazyPattern1(s) ==
    LET P == ReMarker(s)
        A == ReLit(s, ReSpaces(s, ReLit(s, P, <<"c","a","l","c","u","l","a","t","e","d">>), 1), <<"f","i","e","l","d">>)
             \cup ReAlt(s, P, { <<"c","a","l","c","u","l","a","t","i","o","n">>, <<"f","o","r","m","u","l","a">>, <<"f","i","e","l","d">> })
    IN  ReEnd(s, ReSpaces(s, A, 0))

\* ^//\s*(returns?\s+\d|case\s+statement|date\s+calculation|sum\s+of|if\s+statement)
LazyPattern2(s) ==
    LET P == ReMarker(s)
        R == ReLit(s, P, <<"r","e","t","u","r","n">>)
        A == ReDigit(s, ReSpaces(s, R \cup ReLit(s, R, <<"s">>), 1))
             \cup ReLit(s, ReSpaces(s, ReLit(s, P, <<"c","a","s","e">>), 1), <<"s","t","a","t","e","m","e","n","t">>)
             \cup ReLit(s, ReSpaces(s, ReLit(s, P, <<"d","a","t","e">>), 1), <<"c","a","l","c","u","l","a","t","i","o","n">>)
             \cup ReLit(s, ReSpaces(s, ReLit(s, P, <<"s","u","m">>), 1), <<"o","f">>)
             \cup ReLit(s, ReSpaces(s, ReLit(s, P, <<"i","f">>), 1), <<"s","t","a","t","e","m","e","n","t">>)
    IN  A # {}

\* ^//\s*\w{1,6}\s*$
LazyPattern3(s) ==
    ReEnd(s, ReSpaces(s, ReWordChars(s, ReMarker(s), 1, 6), 0))

\* ^//\s*(this|the|a|an)\s+(field|calc|calculation|formula|value)\s*
LazyPattern4(s) ==
    LET A == ReAlt(s, ReMarker(s), { <<"t","h","i","s">>, <<"t","h","e">>, <<"a">>, <<"a","n">> })
        B == ReAlt(s, ReSpaces(s, A, 1),
                   { <<"f","i","e","l","d">>, <<"c","a","l","c">>, <<"c","a","l","c","u","l","a","t","i","o","n">>, <<"f","o","r","m","u","l","a">>,
                     <<"v","a","l","u","e">> })
    IN  B # {}

\* ^//\s*(boolean|string|number|integer|float|date)\s*(field|value|calc)?\s*$
LazyPattern5(s) ==
    LET A == ReAlt(s, ReMarker(s),
                   { <<"b","o","o","l","e","a","n">>, <<"s","t","r","i","n","g">>, <<"n","u","m","b","e","r">>, <<"i","n","t","e","g","e","r">>,
                     <<"f","l","o","a","t">>, <<"d","a","t","e">> })
        B == ReSpaces(s, A, 0)
        C == B \cup ReAlt(s, B, { <<"f","i","e","l","d">>, <<"v","a","l","u","e">>, <<"c","a","l","c">> })
    IN  ReEnd(s, ReSpaces(s, C, 0))

\* some pattern of LAZY_COMMENT_PATTERNS matches at the start of the line
IsLazyLine(comment_line) ==
    \/ LazyPattern1(comment_line)
    \/ LazyPattern2(comment_line)
    \/ LazyPattern3(comment_line)
    \/ LazyPattern4(comment_line)
    \/ LazyPattern5(comment_line)

\* a hexadecimal digit
IsHexChar(c) ==
    c \in Digits \cup {"a","b","c","d","e","f","A","B","C","D","E","F"}

\* (amp|apos|quot|lt|gt|#\d+|#x[0-9A-Fa-f]+); matches at position p
EntityAt(s, p) ==
    \/ \E w \in { <<"a","m","p",";">>, <<"a","p","o","s",";">>, <<"q","u","o","t",";">>, <<"l","t",";">>, <<"g","t",";">> } :
          MatchAt(s, p, w)
    \/ /\ MatchAt(s, p, <<"#">>)
       /\ \E q \in (p + 2)..Len(s) :
             /\ s[q] = ";"
             /\ \A k \in (p + 1)..(q - 1) : s[k] \in Digits
    \/ /\ MatchAt(s, p, <<"#","x">>)
       /\ \E q \in (p + 3)..Len(s) :
             /\ s[q] = ";"
             /\ \A k \in (p + 2)..(q - 1) : IsHexChar(s[k])

\* re.search(r'&(?!(amp|apos|quot|lt|gt|#\d+|#x[0-9A-Fa-f]+);)', s)
HasBareAmpersand(s) ==
    \E p \in 1..Len(s) : s[p] = "&" /\ ~EntityAt(s, p + 1)

(***************************************************************************)
(* validate_comment: the entries it appends to result.errors and           *)
(* result.passes                                                           *)
(***************************************************************************)
BinClasses == { <<"c","a","t","e","g","o","r","i","c","a","l","-","b","i","n">>, <<"q","u","a","n","t","i","t","a","t","i","v","e","-","b","i","n">> }

\* the first line of the comment
CommentLine(formula_stripped) ==
    IF Contains(formula_stripped, <<"\n">>)
    THEN SplitFirst(formula_stripped, <<"\n">>)
    ELSE SplitFirst(formula_stripped, <<"&","#","1","3",";">>)

CommentText(formula_stripped) ==
    Strip(Replace(CommentLine(formula_stripped), <<"/","/">>, <<>>))

\* every sub-condition that holds is reported
M3ErrorsAll(formula_stripped, caption, display_name) ==
    LET comment_line == CommentLine(formula_stripped)
        comment_text == CommentText(formula_stripped)
        caption_normalized ==
            Strip(Replace(Replace(Lower(caption), <<"_">>, <<" ">>), <<"-">>, <<" ">>))
    IN  (IF Len(comment_text) < MIN_COMMENT_LENGTH
         THEN << Entry("M3", display_name,
                       <<"comment too short", Len(comment_text)>>) >>
         ELSE <<>>)
        \o (IF IsLazyLine(comment_line)
            THEN << Entry("M3", display_name,
                          <<"lazy/generic comment",
                            SubSeq(comment_text, 1,
                                   IF Len(comment_text) < 30
                                   THEN Len(comment_text) ELSE 30)>>) >>
            ELSE <<>>)
        \o (IF Truthy(caption)
               /\ caption_normalized = Strip(Lower(comment_text))
            THEN << Entry("M3", display_name,
                          <<"comment just restates caption">>) >>
            ELSE <<>>)

\* lines 158-180: at most one M3 error, the first sub-condition that holds
M3Errors(formula_stripped, caption, display_name) ==
    LET comment_line == CommentLine(formula_stripped)
        comment_text == CommentText(formula_stripped)
        caption_normalized ==
            Strip(Replace(Replace(Lower(caption), <<"_">>, <<" ">>), <<"-">>, <<" ">>))
    IN  IF Len(comment_text) < MIN_COMMENT_LENGTH
        THEN << Entry("M3", display_name,
                      <<"comment too short", Len(comment_text)>>) >>
        ELSE IF IsLazyLine(comment_line)
        THEN << Entry("M3", display_name,
                      <<"lazy/generic comment",
                        SubSeq(comment_text, 1,
                               IF Len(comment_text) < 30
                               THEN Len(comment_text) ELSE 30)>>) >>
        ELSE IF Truthy(caption)
                /\ caption_normalized = Strip(Lower(comment_text))
        THEN << Entry("M3", display_name,
                      <<"comment just restates caption">>) >>
        ELSE <<>>

M4ErrorsParsed(formula, raw_formula, display_name) ==
    IF /\ Contains(formula, <<"\n">>)
       /\ ~Contains(formula, <<"&","#","1","3",";">>)
    THEN << Entry("M4", display_name, <<"newline not XML-encoded">>) >>
    ELSE <<>>

M4Errors(formula, raw_formula, display_name) ==
    IF /\ Truthy(raw_formula)
       /\ Contains(raw_formula, <<"\n">>)
       /\ ~Contains(raw_formula, <<"&","#","1","3",";">>)
    THEN << Entry("M4", display_name, <<"newline not XML-encoded">>) >>
    ELSE <<>>

M5Errors(raw_formula, display_name) ==
    IF Truthy(raw_formula) /\ HasBareAmpersand(raw_formula)
    THEN << Entry("M5", display_name, <<"unescaped & in formula/comment">>) >>
    ELSE <<>>

CommentAfterM1Checked(formula, stripped, caption, raw, display_name) ==
    [errors |-> << Entry("M1", display_name, <<"missing comment">>) >>
                \o M3Errors(stripped, caption, display_name)
                \o M4Errors(formula, raw, display_name)
                \o M5Errors(raw, display_name),
     passes |-> <<>>]

\* lines 148-151: the formula has no leading comment; the function returns
CommentAfterM1(formula, stripped, caption, raw, display_name) ==
    [errors |-> << Entry("M1", display_name, <<"missing comment">>) >>,
     passes |-> <<>>]

validate_comment(formula, caption, name, raw_formula, calc_class) ==
    LET display_name == Or(caption, name)
        formula_stripped == IF Truthy(formula) THEN Strip(formula) ELSE <<>>
    IN  IF calc_class \in BinClasses
        THEN [errors |-> <<>>,
              passes |-> << Entry("M1", display_name,
                                  <<"bin/group calc - no formula to comment">>) >>]
        ELSE IF formula = None
        THEN [errors |-> <<>>,
              passes |-> << Entry("M1", display_name,
                                  <<"no formula attribute - skipping">>) >>]
        ELSE IF formula_stripped = <<>>
        THEN [errors |-> <<>>,
              passes |-> << Entry("M1", display_name,
                                  <<"empty formula - skipping">>) >>]
        ELSE IF ~StartsWith(formula_stripped, <<"/","/">>)
        THEN CommentAfterM1(formula, formula_stripped, caption, raw_formula,
                            display_name)
        ELSE [errors |-> M3Errors(formula_stripped, caption, display_name)
                         \o M4Errors(formula, raw_formula, display_name)
                         \o M5Errors(raw_formula, display_name),
              passes |-> << Entry("M1", display_name, <<"has comment">>),
                            Entry("M2", display_name, <<"starts with //">>) >>]

(***************************************************************************)
(* The workbook file.  A file on disk is the record                        *)
(*   syntax_ok : its tags are balanced and properly nested                 *)
(*   columns   : the <column> elements in document order, each with the    *)
(*               raw (unparsed) text of its attributes, the quote          *)
(*               character around name and formula, and whether it has a   *)
(*               <calculation> child                                       *)
(*   fc        : the first <folders-common> element, if any, with its      *)
(*               <folder> children                                         *)
(*   layout    : the first <layout> element, if any                        *)
(*   outside   : the number of <folder> elements that are not children of  *)
(*               the first <folders-common>                                *)
(* An absent attribute is None.                                            *)
(***************************************************************************)
\* character and entity references the parser decodes
References ==
    { <<<<"&","a","m","p",";">>, "&">>, <<<<"&","l","t",";">>, "<">>, <<<<"&","g","t",";">>, ">">>,
      <<<<"&","a","p","o","s",";">>, "'">>, <<<<"&","q","u","o","t",";">>, "\"">>,
      <<<<"&","#","1","3",";">>, "\r">>, <<<<"&","#","1","0",";">>, "\n">>,
      <<<<"&","#","x","1","F","4","C","A",";">>, "E1">>, <<<<"&","#","x","1","F","4","C","5",";">>, "E2">> }

RECURSIVE DecodeFrom(_, _)
DecodeFrom(raw, i) ==
    IF i > Len(raw) THEN <<>>
    ELSE IF \E r \in References : MatchAt(raw, i, r[1])
    THEN LET r == CHOOSE x \in References : MatchAt(raw, i, x[1])
         IN  <<r[2]>> \o DecodeFrom(raw, i + Len(r[1]))
    ELSE IF raw[i] \in {"\n", "\t", "\r"}
    THEN <<" ">> \o DecodeFrom(raw, i + 1)
    ELSE <<raw[i]>> \o DecodeFrom(raw, i + 1)

\* the value ElementTree gives for an attribute whose text in the file is
\* raw: references decoded, literal line breaks and tabs turned into spaces
Attr(raw) == IF raw = None THEN None ELSE DecodeFrom(raw, 1)

\* an attribute text the parser accepts
AttrOk(raw) ==
    \/ raw = None
    \/ /\ ~Contains(raw, <<"<">>)
       /\ \A p \in 1..Len(raw) :
             raw[p] = "&" => \E r \in References : MatchAt(raw, p, r[1])

ColumnAttrs(c) == { c.name, c.caption, c.class, c.formula }

FolderAttrs(f) == { f.name, f.role } \cup { f.items[i] : i \in 1..Len(f.items) }

\* ET.fromstring(content) does not raise ParseError
WellFormed(f) ==
    /\ f.syntax_ok
    /\ \A i \in 1..Len(f.columns) : \A a \in ColumnAttrs(f.columns[i]) : AttrOk(a)
    /\ \A i \in 1..Len(f.fc.folders) :
          \A a \in FolderAttrs(f.fc.folders[i]) : AttrOk(a)
    /\ AttrOk(f.layout.show)

ParseColumn(c) ==
    [name |-> Attr(c.name), caption |-> Attr(c.caption),
     has_calc |-> c.has_calc, class |-> Attr(c.class),
     formula |-> Attr(c.formula)]

ParseFolder(f) ==
    [name |-> Attr(f.name), role |-> Attr(f.role),
     items |-> [i \in 1..Len(f.items) |-> Attr(f.items[i])]]

\* root = None: no tree (the other fields are never read by the code)
NoRoot ==
    [parsed |-> FALSE, columns |-> <<>>,
     fc |-> [present |-> FALSE, folders |-> <<>>],
     layout |-> [present |-> FALSE, show |-> None, shared_parent |-> FALSE,
                 before_fc |-> FALSE],
     outside |-> 0]

\* the element tree of a well-formed file
Parse(f) ==
    [parsed |-> TRUE,
     columns |-> [i \in 1..Len(f.columns) |-> ParseColumn(f.columns[i])],
     fc |-> [present |-> f.fc.present,
             folders |-> [i \in 1..Len(f.fc.folders) |->
                             ParseFolder(f.fc.folders[i])]],
     layout |-> [present |-> f.layout.present,
                 show |-> Attr(f.layout.show),
                 shared_parent |-> f.layout.shared_parent,
                 before_fc |-> f.layout.before_fc],
     outside |-> f.outside]

RECURSIVE SelectSeq2(_, _)
\* [c for c in columns if c.find('calculation') is not None]
SelectSeq2(s, i) ==
    IF i > Len(s) THEN <<>>
    ELSE (IF s[i].has_calc THEN <<s[i]>> ELSE <<>>) \o SelectSeq2(s, i + 1)

Calculations(tree) == SelectSeq2(tree.columns, 1)

(***************************************************************************)
(* The raw-formula index (validate_workbook, lines 384-397)                *)
(***************************************************************************)
\* dict.get
Get(d, k) == IF k \in DOMAIN d THEN d[k] ELSE None

\* d[k] = v
Put(d, k, v) == [x \in (DOMAIN d) \cup {k} |-> IF x = k THEN v ELSE d[x]]

\* <calculation[^>]*formula=q([^q]*)q can match inside column c
HasQuotedFormula(c, q) ==
    c.has_calc /\ c.formula # None /\ c.formula_quote = q

\* <column[^>]*name=q([^q]+)q[^>]*> can match the tag of column c
HasQuotedName(c, q) ==
    c.name # None /\ c.name # <<>> /\ c.name_quote = q

RECURSIVE IndexFrom(_, _, _, _)
\* re.finditer over the file text from column pos on: a match starts at
\* the first column tag with a q-quoted name and runs (.*?, re.DOTALL) to
\* the nearest following q-quoted formula attribute, in whichever column
\* that is; the next match is looked for after it
IndexFrom(columns, pos, q, acc) ==
    LET n == Len(columns)
        starts == { i \in pos..n :
                      /\ HasQuotedName(columns[i], q)
                      /\ \E j \in i..n : HasQuotedFormula(columns[j], q) }
    IN  IF starts = {} THEN acc
        ELSE LET i == CHOOSE x \in starts : \A y \in starts : x <= y
                 js == { j \in i..n : HasQuotedFormula(columns[j], q) }
                 j == CHOOSE x \in js : \A y \in js : x <= y
             IN  IndexFrom(columns, j + 1, q,
                           Put(acc, columns[i].name, columns[j].formula))

\* raw_formulas: the single-quote pass, then the double-quote pass
BuildIndex(f) ==
    IndexFrom(f.columns, 1, "\"", IndexFrom(f.columns, 1, "'", <<>>))

(***************************************************************************)
(* validate_folders                                                        *)
(***************************************************************************)
RECURSIVE Flat(_)
\* the concatenation of a sequence of sequences
Flat(ss) == IF ss = <<>> THEN <<>> ELSE Head(ss) \o Flat(Tail(ss))

\* attribute value with a default: elem.get(attr, default)
GetOr(value, default) == IF value = None THEN default ELSE value

\* emoji_pattern.match(name): the matched marker, or None
\* ^([\U0001F300-\U0001F9FF]|&#x[0-9A-Fa-f]+;)
EmojiMatch(name) ==
    IF name # <<>> /\ name[1] \in EmojiChars THEN <<name[1]>>
    ELSE IF /\ StartsWith(name, <<"&","#","x">>)
            /\ \E q \in 5..Len(name) :
                  /\ name[q] = ";"
                  /\ \A k \in 4..(q - 1) : IsHexChar(name[k])
    THEN SubSeq(name, 1, CHOOSE q \in 5..Len(name) :
                            /\ name[q] = ";"
                            /\ \A k \in 4..(q - 1) : IsHexChar(name[k]))
    ELSE None

RECURSIVE StripChars(_, _)
\* s.strip(chars)
StripChars(s, chars) ==
    IF s # <<>> /\ Head(s) \in chars THEN StripChars(Tail(s), chars)
    ELSE IF s # <<>> /\ s[Len(s)] \in chars
    THEN StripChars(SubSeq(s, 1, Len(s) - 1), chars)
    ELSE s

\* the names of all folder items, in document order
FolderItems(folders) ==
    Flat([i \in 1..Len(folders) |-> folders[i].items])

F3Entries(layout) ==
    IF layout.present /\ layout.shared_parent
    THEN IF layout.before_fc
         THEN [errors |-> << Entry("F3", <<"X","M","L">>,
                   <<"<folders-common> must appear before <layout>">>) >>,
               passes |-> <<>>]
         ELSE [errors |-> <<>>,
               passes |-> << Entry("F3", <<"X","M","L">>,
                   <<"<folders-common> is before <layout>">>) >>]
    ELSE [errors |-> <<>>, passes |-> <<>>]

F4Entries(outside) ==
    IF outside > 0
    THEN [errors |-> << Entry("F4", <<"X","M","L">>,
              <<"<folder> elements outside <folders-common>", outside>>) >>,
          passes |-> <<>>]
    ELSE [errors |-> <<>>,
          passes |-> << Entry("F4", <<"X","M","L">>,
              <<"all <folder> elements inside <folders-common>">>) >>]

F5Errors(folders) ==
    Flat([i \in 1..Len(folders) |->
        IF Truthy(folders[i].role)
        THEN << Entry("F5", GetOr(folders[i].name, <<"u","n","n","a","m","e","d">>),
                      <<"has invalid role attribute">>) >>
        ELSE <<>>])

F1Errors(calcs, fields_in_folders) ==
    Flat([i \in 1..Len(calcs) |->
        LET calc_name == calcs[i].name
            bracketed == IF StartsWith(calc_name, <<"[">>) THEN calc_name
                         ELSE <<"[">> \o calc_name \o <<"]">>
        IN  IF /\ Truthy(calc_name)
               /\ calc_name \notin fields_in_folders
               /\ (<<"[">> \o calc_name \o <<"]">>) \notin fields_in_folders
               /\ bracketed \notin fields_in_folders
            THEN << Entry("F1", Or(calcs[i].caption, calc_name),
                          <<"not in any folder">>) >>
            ELSE <<>>])

F6Errors(folders, calc_names) ==
    LET items == FolderItems(folders)
    IN  Flat([i \in 1..Len(items) |->
            LET field_name == GetOr(items[i], <<>>)
            IN  IF /\ StripChars(field_name, {"[", "]"}) \notin calc_names
                   /\ field_name \notin calc_names
                THEN << Entry("F6", field_name, <<"not found in workbook">>) >>
                ELSE <<>>])

F7Entries(layout) ==
    IF ~layout.present THEN [errors |-> <<>>, passes |-> <<>>]
    ELSE IF layout.show # <<"t","r","u","e">>
    THEN [errors |-> << Entry("F7", <<"X","M","L">>,
              <<"<layout> missing show-structure='true'">>) >>,
          passes |-> <<>>]
    ELSE [errors |-> <<>>,
          passes |-> << Entry("F7", <<"X","M","L">>,
              <<"<layout> has show-structure='true'">>) >>]

F8Errors(folders) ==
    Flat([i \in 1..Len(folders) |->
        LET folder_name == GetOr(folders[i].name, <<>>)
        IN  IF Contains(folder_name, <<"&">>) /\ ~Contains(folder_name, <<"&","a","m","p",";">>)
            THEN << Entry("F8", folder_name, <<"has unescaped &">>) >>
            ELSE <<>>])

F9EntriesLoose(n) ==
    [errors |-> <<>>,
     passes |-> << Entry("F9", <<"X","M","L">>, <<"folders (max)", n, MAX_FOLDERS>>) >>]

F9Entries(n) ==
    IF n > MAX_FOLDERS
    THEN [errors |-> << Entry("F9", <<"X","M","L">>,
              <<"Too many folders", n, MAX_FOLDERS>>) >>,
          passes |-> <<>>]
    ELSE [errors |-> <<>>,
          passes |-> << Entry("F9", <<"X","M","L">>,
              <<"folders (max)", n, MAX_FOLDERS>>) >>]

F10Errors(folders) ==
    Flat([i \in 1..Len(folders) |->
        LET folder_name == GetOr(folders[i].name, <<>>)
        IN  IF EmojiMatch(folder_name) = None
            THEN << Entry("F10", folder_name, <<"missing emoji prefix">>) >>
            ELSE <<>>])

\* one error for every element of list that occurs earlier in list
DuplicateErrorsPerPair(list, message) ==
    Flat([i \in 1..Len(list) |->
        Flat([j \in 1..(i - 1) |->
            IF list[j] = list[i]
            THEN << Entry("F11", list[i], <<message>>) >> ELSE <<>>])])

\* the seen-set loops of lines 322-334
DuplicateErrors(list, message) ==
    Flat([i \in 1..Len(list) |->
        IF \E j \in 1..(i - 1) : list[j] = list[i]
        THEN << Entry("F11", list[i], <<message>>) >>
        ELSE <<>>])

F11Errors(folders) ==
    LET folder_names == [i \in 1..Len(folders) |-> GetOr(folders[i].name, <<>>)]
        folder_emojis ==
            Flat([i \in 1..Len(folders) |->
                IF EmojiMatch(folder_names[i]) # None
                THEN << EmojiMatch(folder_names[i]) >> ELSE <<>>])
    IN  DuplicateErrors(folder_names, "duplicate folder name")
        \o DuplicateErrors(folder_emojis,
                           "duplicate emoji used in multiple folders")

\* validate_folders giving up at the first structural failure (F3 or F4)
validate_foldersStopAtFailure(tree, calcs) ==
    IF ~tree.fc.present
    THEN [errors |-> << Entry("F2", <<"X","M","L">>,
              <<"Missing <folders-common> element">>) >>,
          passes |-> <<>>]
    ELSE
    LET folders == tree.fc.folders
        fields_in_folders ==
            { x \in { FolderItems(folders)[i] :
                        i \in 1..Len(FolderItems(folders)) } : Truthy(x) }
        calc_names == { calcs[i].name : i \in 1..Len(calcs) }
        f3 == F3Entries(tree.layout)
        f4 == F4Entries(tree.outside)
        f7 == F7Entries(tree.layout)
        f9 == F9Entries(Len(folders))
        f2 == << Entry("F2", <<"X","M","L">>, <<"<folders-common> exists">>) >>
    IN  IF f3.errors # <<>>
        THEN [errors |-> f3.errors, passes |-> f2]
        ELSE IF f4.errors # <<>>
        THEN [errors |-> f4.errors, passes |-> f2 \o f3.passes]
        ELSE [errors |-> F5Errors(folders)
                         \o F1Errors(calcs, fields_in_folders)
                         \o F6Errors(folders, calc_names)
                         \o f7.errors \o F8Errors(folders) \o f9.errors
                         \o F10Errors(folders) \o F11Errors(folders),
              passes |-> f2 \o f3.passes \o f4.passes \o f7.passes \o f9.passes]

\* the entries validate_folders appends to result.errors and result.passes
validate_folders(tree, calcs) ==
    IF ~tree.fc.present
    THEN [errors |-> << Entry("F2", <<"X","M","L">>,
              <<"Missing <folders-common> element">>) >>,
          passes |-> <<>>]
    ELSE
    LET folders == tree.fc.folders
        fields_in_folders ==
            { x \in { FolderItems(folders)[i] :
                        i \in 1..Len(FolderItems(folders)) } : Truthy(x) }
        calc_names == { calcs[i].name : i \in 1..Len(calcs) }
        f3 == F3Entries(tree.layout)
        f4 == F4Entries(tree.outside)
        f7 == F7Entries(tree.layout)
        f9 == F9Entries(Len(folders))
    IN  [errors |-> f3.errors \o f4.errors \o F5Errors(folders)
                    \o F1Errors(calcs, fields_in_folders)
                    \o F6Errors(folders, calc_names)
                    \o f7.errors \o F8Errors(folders) \o f9.errors
                    \o F10Errors(folders) \o F11Errors(folders),
         passes |-> << Entry("F2", <<"X","M","L">>, <<"<folders-common> exists">>) >>
                    \o f3.passes \o f4.passes \o f7.passes \o f9.passes]

(***************************************************************************)
(* validate_safety                                                         *)
(***************************************************************************)
CleanedMarkerDash == <<"-","c","l","e","a","n","e","d">>

\* the marker of a cleaned copy's file name (line 365)
CleanedMarker == <<"_","c","l","e","a","n","e","d">>

S2Entries(backup, disk) ==
    IF ~Truthy(backup) THEN [errors |-> <<>>, passes |-> <<>>]
    ELSE IF backup \in disk
    THEN [errors |-> <<>>,
          passes |-> << Entry("S2", <<"b","a","c","k","u","p">>, <<"exists at", backup>>) >>]
    ELSE [errors |-> << Entry("S2", <<"b","a","c","k","u","p">>, <<"not found at", backup>>) >>,
          passes |-> <<>>]

S3Entries(twb, original) ==
    IF Contains(twb, CleanedMarker)
    THEN [errors |-> <<>>,
          passes |-> << Entry("S3", <<"o","u","t","p","u","t">>, <<"is _cleaned copy">>) >>]
    ELSE IF Truthy(original) /\ twb = original
    THEN [errors |-> << Entry("S3", <<"o","u","t","p","u","t">>,
              <<"original file was modified instead of _cleaned copy">>) >>,
          passes |-> <<>>]
    ELSE [errors |-> <<>>, passes |-> <<>>]

\* the entries validate_safety appends; disk is the set of existing paths
validate_safety(twb, backup, original, disk) ==
    [errors |-> S2Entries(backup, disk).errors \o S3Entries(twb, original).errors,
     passes |-> S2Entries(backup, disk).passes \o S3Entries(twb, original).passes]

(***************************************************************************)
(* Bounded texts: concatenations of at most MaxPieces pieces               *)
(***************************************************************************)
MaxPieces == 4

RECURSIVE Concats(_, _)
Concats(pieces, n) ==
    IF n = 0 THEN { <<>> }
    ELSE LET shorter == Concats(pieces, n - 1)
         IN  shorter \cup { s \o p : s \in shorter, p \in pieces }

TitlePieces ==
    { <<" ">>, <<"_">>, <<"i","d">>, <<"I","d">>, <<"I","D">>,
      <<"a","B">>, <<"Y","t","d">>, <<"x">>, <<"2","n","D">> }

TitleInputs == Concats(TitlePieces, MaxPieces)

(***************************************************************************)
(* Specification of to_title_case applied once and twice                   *)
(***************************************************************************)
Idle ==
    /\ argv = <<>> /\ existing = {} /\ file = None
    /\ twb_path = None /\ backup_path = None /\ original_path = None
    /\ raw_formulas = <<>> /\ root = None /\ calculations = <<>>
    /\ idx = 0 /\ errors = <<>> /\ passes = <<>> /\ exit_code = -1
    /\ batch_file = NoBatchFile

InitTitle ==
    /\ Idle
    /\ pc = "title_call"
    /\ call \in { [text |-> x] : x \in TitleInputs }
    /\ ret = None

TitleOnce ==
    /\ pc = "title_call"
    /\ ret' = <<to_title_case(call.text)>>
    /\ pc' = "title_once"
    /\ UNCHANGED <<argv, existing, file, twb_path, backup_path, original_path,
                   raw_formulas, root, calculations, idx, errors, passes,
                   exit_code, call>>
    /\ UNCHANGED batch_file

TitleTwice ==
    /\ pc = "title_once"
    /\ ret' = <<ret[1], to_title_case(ret[1])>>
    /\ pc' = "title_twice"
    /\ UNCHANGED <<argv, existing, file, twb_path, backup_path, original_path,
                   raw_formulas, root, calculations, idx, errors, passes,
                   exit_code, call>>
    /\ UNCHANGED batch_file

NextTitle == TitleOnce \/ TitleTwice

SpecTitle == InitTitle /\ [][NextTitle]_vars

(***************************************************************************)
(* Specification of validate_caption called on one (caption, name)         *)
(***************************************************************************)
CaptionPieces ==
    { <<" ">>, <<"_">>, <<"i","d">>, <<"I","D">>, <<"S","a","l","e","s">>,
      <<"y","T","d">>, <<"(","a",")">>, <<"c","_">>, <<"t","o","t","a","l">> }

CaptionInputs == Concats(CaptionPieces, MaxPieces) \cup { None }

InitCaption ==
    /\ Idle
    /\ pc = "caption_call"
    /\ call \in { [caption |-> c, name |-> n] :
                    c \in CaptionInputs, n \in {<<"[","A","]">>, None} }
    /\ ret = None

ValidateCaption ==
    /\ pc = "caption_call"
    /\ \E order \in CaptionOrders(call.caption) :
          errors' = errors \o validate_caption(call.caption, call.name, order)
    /\ pc' = "caption_ret"
    /\ UNCHANGED <<argv, existing, file, twb_path, backup_path, original_path,
                   raw_formulas, root, calculations, idx, passes,
                   exit_code, call, ret>>
    /\ UNCHANGED batch_file

NextCaption == ValidateCaption

SpecCaption == InitCaption /\ [][NextCaption]_vars

\* the caption holds acronym a as a whole token (regex word boundaries on
\* both sides) written otherwise than fully upper-case
HasMiscasedToken(caption, a) ==
    \E p \in 1..Len(caption) :
        /\ AcronymMatchAt(caption, p, a)
        /\ SubSeq(caption, p, p + Len(a) - 1) # a

\* C8: whenever a caption contains an acronym-set word as a whole token in
\* a casing other than fully upper-case, validate_caption records a C4
\* failure that names the expected upper-case form.
C8_MiscasedAcronymFailsC4 ==
    (pc = "caption_ret" /\ Truthy(call.caption)) =>
        \A a \in ACRONYMS :
            HasMiscasedToken(call.caption, a) =>
                \E i \in 1..Len(errors) :
                    /\ errors[i].rule = "C4"
                    /\ errors[i].message[3] = a

(***************************************************************************)
(* Specification of validate_comment called on one field                   *)
(***************************************************************************)
MaxFormulaPieces == 3

MaxRawPieces == 2

FormulaPieces ==
    { <<"/","/">>, <<" ","c","a","l","c","u","l","a","t","e","d"," ","f","i","e","l","d">>,
      <<" ","t","o","t","a","l"," ","s","a","l","e","s"," ","r","e","g","i","o","n">>,
      <<"\n">>, <<" ","c","a","l","c","u","l","a","t","i","o","n">> }

RawPieces ==
    { <<"\n">>, <<"&","#","1","3",";","&","#","1","0",";">>, <<"&">>, <<"&","a","m","p",";">>, <<"a">> }

FormulaInputs == Concats(FormulaPieces, MaxFormulaPieces) \cup { None }

RawInputs == Concats(RawPieces, MaxRawPieces) \cup { None }

CommentCaptions ==
    { None, <<"T","o","t","a","l","_","S","a","l","e","s","-","R","e","g","i","o","n">>,
      <<"C","a","l","c","u","l","a","t","e","d","_","F","i","e","l","d">> }

CalcClasses == { <<"t","a","b","l","e","a","u">>, <<"c","a","t","e","g","o","r","i","c","a","l","-","b","i","n">>, <<"q","u","a","n","t","i","t","a","t","i","v","e","-","b","i","n">> }

InitComment ==
    /\ Idle
    /\ pc = "comment_call"
    /\ \E f \in FormulaInputs, c \in CommentCaptions,
          r \in RawInputs, k \in CalcClasses :
            call = [formula |-> f, caption |-> c, name |-> <<"[","A","]">>,
                    raw_formula |-> r, calc_class |-> k]
    /\ ret = None

ValidateComment ==
    /\ pc = "comment_call"
    /\ LET r == validate_comment(call.formula, call.caption, call.name,
                                 call.raw_formula, call.calc_class)
       IN  /\ errors' = errors \o r.errors
           /\ passes' = passes \o r.passes
    /\ pc' = "comment_ret"
    /\ UNCHANGED <<argv, existing, file, twb_path, backup_path, original_path,
                   raw_formulas, root, calculations, idx, exit_code, call, ret>>
    /\ UNCHANGED batch_file

NextComment == ValidateComment

SpecComment == InitComment /\ [][NextComment]_vars

\* entries of `entries` recorded under rule r
RuleCount(entries, r) ==
    Cardinality({ i \in 1..Len(entries) : entries[i].rule = r })

\* the field has a formula that is non-blank after trimming, is not a bin
\* or group calculation, and whose trimmed text does not start with "//"
C3_Uncommented ==
    /\ call.calc_class \notin BinClasses
    /\ call.formula # None
    /\ Strip(call.formula) # <<>>
    /\ ~StartsWith(Strip(call.formula), <<"/","/">>)

\* C3: a field whose formula (present, non-blank after trimming, not a
\* bin/group calculation) does not start with "//" gets exactly one M1
\* failure, no M2 pass and no M3, M4 or M5 entry, whatever the raw formula
\* text and the caption are.
C3_NoCommentFailsOnlyM1 ==
    (pc = "comment_ret" /\ C3_Uncommented) =>
        /\ RuleCount(errors, "M1") = 1
        /\ RuleCount(passes, "M2") = 0
        /\ \A r \in {"M3", "M4", "M5"} :
              RuleCount(errors, r) = 0 /\ RuleCount(passes, r) = 0

\* an uncommented formula was validated with a raw text that holds a bare
\* line break and a bare ampersand, and with a caption
C3_Witness ==
    /\ pc = "comment_ret"
    /\ C3_Uncommented
    /\ call.raw_formula = <<"\n","&">>
    /\ call.caption # None
    /\ RuleCount(errors, "M1") = 1

(***************************************************************************)
(* The validator run: __main__ and validate_workbook, one action per step  *)
(***************************************************************************)
RECURSIVE ParseArgs(_, _, _, _)
\* the option loop of lines 490-500 over args = sys.argv[2:]
ParseArgs(args, i, backup, original) ==
    IF i > Len(args) THEN [backup |-> backup, original |-> original]
    ELSE IF args[i] = <<"-","-","b","a","c","k","u","p">> /\ i + 1 <= Len(args)
    THEN ParseArgs(args, i + 2, args[i + 1], original)
    ELSE IF args[i] = <<"-","-","o","r","i","g","i","n","a","l">> /\ i + 1 <= Len(args)
    THEN ParseArgs(args, i + 2, backup, args[i + 1])
    ELSE ParseArgs(args, i + 1, backup, original)

\* lines 478-500: argv is sys.argv[1:]
Main ==
    /\ pc = "main"
    /\ IF Len(argv) < 1
       THEN /\ exit_code' = 1
            /\ pc' = "exit"
            /\ UNCHANGED <<twb_path, backup_path, original_path>>
       ELSE LET opts == ParseArgs(Tail(argv), 1, None, None)
            IN  /\ twb_path' = argv[1]
                /\ backup_path' = opts.backup
                /\ original_path' = opts.original
                /\ pc' = "read"
                /\ UNCHANGED exit_code
    /\ UNCHANGED <<argv, existing, file, raw_formulas, root, calculations,
                   idx, errors, passes, call, ret>>
    /\ UNCHANGED batch_file

\* lines 373-397: result = ValidationResult(); open(twb_path) raises when
\* the path cannot be opened, which nothing catches: the interpreter
\* prints the traceback and the process ends with status 1
ReadRaw ==
    /\ pc = "read"
    /\ IF twb_path \notin existing
       THEN /\ exit_code' = 1
            /\ pc' = "exit"
            /\ call' = [fn |-> "uncaught exception"]
            /\ UNCHANGED raw_formulas
       ELSE /\ raw_formulas' = BuildIndex(file)
            /\ pc' = "xml"
            /\ UNCHANGED <<exit_code, call>>
    /\ UNCHANGED <<argv, existing, file, twb_path, backup_path, original_path,
                   root, calculations, idx, errors, passes, ret>>
    /\ UNCHANGED batch_file

AfterXmlFailureContinue == "captions"

\* where validate_workbook goes when validate_xml returned None (lines
\* 402-406): it returns the result
AfterXmlFailure == "return"

\* lines 399-411: validate_xml, then the list of calculated fields
ValidateXml ==
    /\ pc = "xml"
    /\ call' = [fn |-> "validate_xml"]
    /\ IF WellFormed(file)
       THEN /\ passes' = Extend(passes, << Entry("X1", <<"X","M","L">>, <<"valid XML">>) >>)
            /\ root' = Parse(file)
            /\ calculations' = Calculations(Parse(file))
            /\ idx' = 1
            /\ pc' = "captions"
            /\ UNCHANGED errors
       ELSE /\ errors' = Extend(errors, << Entry("X1", <<"X","M","L">>, <<"parse error">>) >>)
            /\ root' = NoRoot
            /\ calculations' = <<>>
            /\ idx' = 1
            /\ pc' = AfterXmlFailure
            /\ UNCHANGED passes
    /\ UNCHANGED <<argv, existing, file, twb_path, backup_path, original_path,
                   raw_formulas, exit_code, ret>>
    /\ UNCHANGED batch_file

\* lines 418-421: one iteration of the caption loop
CaptionStep ==
    /\ pc = "captions"
    /\ idx <= Len(calculations)
    /\ LET col == calculations[idx]
       IN  \E order \in CaptionOrders(col.caption) :
              /\ call' = [fn |-> "validate_caption", caption |-> col.caption,
                          name |-> col.name]
              /\ ret' = [errors |-> validate_caption(col.caption, col.name, order),
                         passes |-> <<>>]
              /\ errors' = Extend(errors, validate_caption(col.caption, col.name, order))
    /\ idx' = idx + 1
    /\ UNCHANGED <<pc, argv, existing, file, twb_path, backup_path,
                   original_path, raw_formulas, root, calculations, passes,
                   exit_code>>
    /\ UNCHANGED batch_file

CaptionsDone ==
    /\ pc = "captions"
    /\ idx > Len(calculations)
    /\ pc' = "comments"
    /\ idx' = 1
    /\ UNCHANGED <<argv, existing, file, twb_path, backup_path, original_path,
                   raw_formulas, root, calculations, errors, passes, exit_code,
                   call, ret>>
    /\ UNCHANGED batch_file

\* lines 432-439: one iteration of the comment loop
CommentStep ==
    /\ pc = "comments"
    /\ idx <= Len(calculations)
    /\ LET col == calculations[idx]
           raw_formula == Get(raw_formulas, col.name)
           r == validate_comment(col.formula, col.caption, col.name,
                                 raw_formula, col.class)
       IN  /\ call' = [fn |-> "validate_comment", formula |-> col.formula,
                       caption |-> col.caption, name |-> col.name,
                       raw_formula |-> raw_formula, calc_class |-> col.class]
           /\ ret' = r
           /\ errors' = Extend(errors, r.errors)
           /\ passes' = Extend(passes, r.passes)
    /\ idx' = idx + 1
    /\ UNCHANGED <<pc, argv, existing, file, twb_path, backup_path,
                   original_path, raw_formulas, root, calculations, exit_code>>
    /\ UNCHANGED batch_file

CommentsDone ==
    /\ pc = "comments"
    /\ idx > Len(calculations)
    /\ pc' = "folders"
    /\ UNCHANGED <<argv, existing, file, twb_path, backup_path, original_path,
                   raw_formulas, root, calculations, idx, errors, passes,
                   exit_code, call, ret>>
    /\ UNCHANGED batch_file

\* line 450
Folders ==
    /\ pc = "folders"
    /\ LET r == validate_folders(root, calculations)
       IN  /\ call' = [fn |-> "validate_folders"]
           /\ ret' = r
           /\ errors' = Extend(errors, r.errors)
           /\ passes' = Extend(passes, r.passes)
    /\ pc' = "safety"
    /\ UNCHANGED <<argv, existing, file, twb_path, backup_path, original_path,
                   raw_formulas, root, calculations, idx, exit_code>>
    /\ UNCHANGED batch_file

SafetyRunsAlways(backup, original) == TRUE

\* the condition of line 459
SafetyRuns(backup, original) == Truthy(backup) \/ Truthy(original)

\* lines 458-461
Safety ==
    /\ pc = "safety"
    /\ LET r == IF SafetyRuns(backup_path, original_path)
                THEN validate_safety(twb_path, backup_path, original_path,
                                     existing)
                ELSE [errors |-> <<>>, passes |-> <<>>]
       IN  /\ call' = [fn |-> "validate_safety"]
           /\ ret' = r
           /\ errors' = Extend(errors, r.errors)
           /\ passes' = Extend(passes, r.passes)
    /\ pc' = "return"
    /\ UNCHANGED <<argv, existing, file, twb_path, backup_path, original_path,
                   raw_formulas, root, calculations, idx, exit_code>>
    /\ UNCHANGED batch_file

\* line 503: sys.exit(1 if result.has_errors() else 0)
Finish ==
    /\ pc = "return"
    /\ exit_code' = IF has_errors(errors) THEN 1 ELSE 0
    /\ pc' = "exit"
    /\ UNCHANGED <<argv, existing, file, twb_path, backup_path, original_path,
                   raw_formulas, root, calculations, idx, errors, passes,
                   call, ret>>
    /\ UNCHANGED batch_file

Next ==
    \/ Main
    \/ ReadRaw
    \/ ValidateXml
    \/ CaptionStep
    \/ CaptionsDone
    \/ CommentStep
    \/ CommentsDone
    \/ Folders
    \/ Safety
    \/ Finish

(***************************************************************************)
(* Inputs of a run: command lines, the disk, workbook files                *)
(***************************************************************************)
MaxOptions == 2

MaxColumns == 2

RECURSIVE BoundedSeqs(_, _)
\* the sequences of at most n elements of S
BoundedSeqs(S, n) ==
    IF n = 0 THEN { <<>> }
    ELSE LET shorter == BoundedSeqs(S, n - 1)
         IN  shorter \cup { Append(s, x) : s \in shorter, x \in S }

PlainPath == <<"w",".","t","w","b">>

UnderscorePath == <<"w","_","c","l","e","a","n","e","d",".","t","w","b">>

DashPath == <<"w","-","c","l","e","a","n","e","d",".","t","w","b">>

BackupPath == <<"b",".","t","w","b">>

TwbPaths == { PlainPath, UnderscorePath, DashPath }

OptionPieces ==
    { << <<"-","-","b","a","c","k","u","p">>, BackupPath >>, << <<"-","-","o","r","i","g","i","n","a","l">>, PlainPath >>,
      << <<"-","-","o","r","i","g","i","n","a","l">>, UnderscorePath >>, << <<"-","-","o","r","i","g","i","n","a","l">>, DashPath >>,
      << <<"-","-","b","a","c","k","u","p">> >> }

ArgvInputs ==
    { <<>> } \cup { <<p>> \o o : p \in TwbPaths,
                                 o \in Concats(OptionPieces, MaxOptions) }

DiskInputs == { {}, TwbPaths, TwbPaths \cup { BackupPath } }

GoodFormula == <<"/","/"," ","e","x","p","l","a","i","n","s"," ","w","h","y"," ","i","t"," ","i","s"," ","n","e","e","d","e","d","&","#","1","3",";","&","#","1","0",";","1">>

Col(name, q, caption, has_calc, class, formula) ==
    [name |-> name, name_quote |-> q, caption |-> caption,
     has_calc |-> has_calc, class |-> class, formula |-> formula,
     formula_quote |-> q]

Folder(name, role, items) == [name |-> name, role |-> role, items |-> items]

NoFc == [present |-> FALSE, folders |-> <<>>]

\* one folder that holds every calculated column of cols
CleanFc(cols) ==
    [present |-> TRUE,
     folders |-> << Folder(<<"&","#","x","1","F","4","C","A",";"," ","M","e","t","r","i","c","s">>, None,
                      Flat([i \in 1..Len(cols) |->
                          IF cols[i].has_calc THEN << cols[i].name >>
                          ELSE <<>>])) >>]

OkLayout ==
    [present |-> TRUE, show |-> <<"t","r","u","e">>, shared_parent |-> TRUE,
     before_fc |-> FALSE]

File(syntax_ok, cols, fc) ==
    [syntax_ok |-> syntax_ok, columns |-> cols, fc |-> fc,
     layout |-> OkLayout, outside |-> 0]

RunColumnLists ==
    { <<>>,
      << Col(<<"[","A","]">>, "'", <<"S","a","l","e","s">>, TRUE, <<"t","a","b","l","e","a","u">>, GoodFormula) >>,
      << Col(<<"[","A","]">>, "'", <<"S","a","l","e","s"," ","i","d">>, TRUE, <<"t","a","b","l","e","a","u">>, <<"1">>) >>,
      << Col(<<"[","A","]">>, "'", None, TRUE, <<"t","a","b","l","e","a","u">>, <<"/","/"," ","a"," ","&"," ","b">>) >>,
      << Col(<<"[","A","]">>, "'", <<"S","a","l","e","s"," ","i","d">>, TRUE, <<"t","a","b","l","e","a","u">>, <<"1">>),
         Col(<<"[","B","]">>, "'", <<"c","_","x">>, TRUE, <<"t","a","b","l","e","a","u">>, <<"/","/"," ","c","a","l","c","u","l","a","t","i","o","n">>) >> }

RunFiles ==
    { File(ok, cols, fc) : ok \in BOOLEAN, cols \in RunColumnLists,
                           fc \in { NoFc } } \cup
    { File(ok, cols, CleanFc(cols)) : ok \in BOOLEAN, cols \in RunColumnLists }

NoCall == [fn |-> "none"]

NoEntries == [errors |-> <<>>, passes |-> <<>>]

Start ==
    /\ pc = "main"
    /\ twb_path = None /\ backup_path = None /\ original_path = None
    /\ raw_formulas = <<>> /\ root = NoRoot /\ calculations = <<>>
    /\ idx = 0 /\ errors = <<>> /\ passes = <<>> /\ exit_code = -1
    /\ call = NoCall /\ ret = NoEntries
    /\ batch_file = NoBatchFile

\* runs over many command lines and disks, on a few workbook files
Init ==
    /\ Start
    /\ argv \in ArgvInputs
    /\ existing \in DiskInputs
    /\ file \in RunFiles

Spec == Init /\ [][Next]_vars

DocColumns ==
    { Col(<<"[","A","]">>, "'", None, FALSE, None, None),
      Col(<<"[","A","]">>, "'", None, TRUE, <<"t","a","b","l","e","a","u">>, GoodFormula),
      Col(<<"[","B","]">>, "'", None, TRUE, <<"t","a","b","l","e","a","u">>,
          <<"/","/"," ","e","x","p","l","a","i","n","s"," ","w","h","y"," ","i","t"," ","i","s"," ","n","e","e","d","e","d","\n","1">>),
      Col(<<"[","B","]">>, "\"", None, TRUE, <<"t","a","b","l","e","a","u">>,
          <<"/","/"," ","e","x","p","l","a","i","n","s"," ","w","h","y"," ","i","t"," ","i","s"," ","n","e","e","d","e","d","\n","1","&","#","1","3",";","&","#","1","0",";","2">>),
      Col(<<"[","A","]">>, "\"", None, TRUE, <<"t","a","b","l","e","a","u">>,
          <<"/","/"," ","e","x","p","l","a","i","n","s"," ","w","h","y"," ","i","t"," ","i","s"," ","n","e","e","d","e","d"," ","1">>),
      Col(<<"[","B","]">>, "'", None, TRUE, <<"c","a","t","e","g","o","r","i","c","a","l","-","b","i","n">>, None),
      [ Col(<<"[","A","]">>, "'", None, TRUE, <<"t","a","b","l","e","a","u">>,
            <<"/","/"," ","e","x","p","l","a","i","n","s"," ","w","h","y"," ","i","t"," ","i","s"," ","n","e","e","d","e","d","\n","3">>)
        EXCEPT !.formula_quote = "\"" ],
      Col(<<"[","B","]">>, "'", None, TRUE, <<"t","a","b","l","e","a","u">>, <<"1","\n","2">>) }

DocFiles ==
    { File(TRUE, cols, NoFc) : cols \in BoundedSeqs(DocColumns, MaxColumns) }
    \cup
    { File(ok, cols, CleanFc(cols)) :
        ok \in BOOLEAN, cols \in BoundedSeqs(DocColumns, MaxColumns) }

\* runs over many workbook files, on a few command lines
InitDoc ==
    /\ Start
    /\ argv \in { <<>>, << PlainPath >>,
                  << PlainPath, <<"-","-","b","a","c","k","u","p">>, BackupPath >> }
    /\ existing \in { {}, TwbPaths }
    /\ file \in DocFiles

SpecDoc == InitDoc /\ [][Next]_vars

(***************************************************************************)
(* Properties of the run                                                   *)
(***************************************************************************)
CaptionRules == {"C1", "C2", "C3", "C4", "C5"}

CommentRules == {"M1", "M2", "M3", "M4", "M5", "M6"}

FolderRules == {"F1", "F2", "F3", "F4", "F5", "F6", "F7", "F8", "F9", "F10",
                "F11"}

SafetyRules == {"S1", "S2", "S3"}

\* the rules under which entries has an entry
RulesOf(entries) == { entries[i].rule : i \in 1..Len(entries) }

\* C1: a run started with a workbook path ends with exit status 0 exactly
\* when result.errors is empty and with 1 otherwise (so a fatal parse
\* error ends with 1); a run started without a workbook path ends with 1.
C1_ExitStatusMatchesFailures ==
    pc = "exit" =>
        /\ exit_code \in {0, 1}
        /\ argv = <<>> => exit_code = 1
        /\ argv # <<>> => (exit_code = 0 <=> Len(errors) = 0)
        /\ (argv # <<>> /\ twb_path \in existing /\ ~WellFormed(file))
              => exit_code = 1

\* the file under test was read and is not well-formed XML
C2_IllFormedRun ==
    /\ pc \in {"captions", "comments", "folders", "safety", "return", "exit"}
    /\ argv # <<>>
    /\ twb_path \in existing
    /\ ~WellFormed(file)

\* C2: when the document is not well-formed XML the result holds exactly
\* one failure, under X1 with subject "XML", and no pass or failure entry
\* of any Caption, Comment, Folder or Safety rule, whatever backup and
\* original paths were given.
C2_IllFormedStopsAfterX1 ==
    C2_IllFormedRun =>
        /\ Len(errors) = 1
        /\ errors[1].rule = "X1"
        /\ errors[1].field = <<"X","M","L">>
        /\ (RulesOf(errors) \cup RulesOf(passes)) \cap
              (CaptionRules \cup CommentRules \cup FolderRules \cup SafetyRules)
              = {}

\* an ill-formed document was validated with a backup and an original path
\* and the run has ended
C2_Witness ==
    /\ C2_IllFormedRun
    /\ pc = "exit"
    /\ file.syntax_ok
    /\ Truthy(backup_path)
    /\ Truthy(original_path)
    /\ Len(errors) = 1
    /\ exit_code = 1

\* validate_comment has just been called on a field whose formula, after
\* trimming, starts with the comment marker
C4_CommentedCall ==
    /\ call.fn = "validate_comment"
    /\ call.calc_class \notin BinClasses
    /\ call.formula # None
    /\ StartsWith(Strip(call.formula), <<"/","/">>)

\* the raw text has a literal line break and no "&#13;"
BareLineBreak(raw) ==
    Contains(raw, <<"\n">>) /\ ~Contains(raw, <<"&","#","1","3",";">>)

\* C4: for a field whose formula starts with the comment marker, an M4
\* failure is recorded exactly when the raw formula text indexed under the
\* field's name has a literal line break and no "&#13;", whatever the
\* parsed formula is; with no raw formula indexed there is no M4 failure.
C4_M4FromRawText ==
    C4_CommentedCall =>
        /\ call.raw_formula = Get(raw_formulas, call.name)
        /\ RuleCount(ret.errors, "M4") =
              (IF call.raw_formula # None /\ BareLineBreak(call.raw_formula)
               THEN 1 ELSE 0)
        /\ RuleCount(ret.passes, "M4") = 0

\* an M4 failure was recorded for a field whose parsed formula has no line
\* break at all (the parser turned the literal one into a space)
C4_Witness ==
    /\ C4_CommentedCall
    /\ ~Contains(call.formula, <<"\n">>)
    /\ BareLineBreak(call.raw_formula)
    /\ RuleCount(ret.errors, "M4") = 1

\* a run on a well-formed document has been through the Safety step
AfterSafety == pc \in {"return", "exit"} /\ root.parsed

\* C7: on a well-formed document, no Safety entry is recorded unless a
\* backup or an original path was given; a given backup path that does
\* not exist gets an S2 failure; and a tested path without the cleaned-copy
\* marker that equals the given original path gets an S3 failure.
C7_SafetyRules ==
    AfterSafety =>
        /\ (backup_path = None /\ original_path = None) =>
              (RulesOf(errors) \cup RulesOf(passes)) \cap SafetyRules = {}
        /\ (backup_path # None /\ backup_path \notin existing) =>
              RuleCount(errors, "S2") = 1
        /\ (~Contains(twb_path, CleanedMarker) /\ original_path = twb_path) =>
              RuleCount(errors, "S3") = 1

\* a run with a missing backup and the original path tested in place
C7_Witness ==
    /\ AfterSafety
    /\ backup_path = BackupPath
    /\ BackupPath \notin existing
    /\ twb_path = PlainPath
    /\ original_path = PlainPath
    /\ RuleCount(errors, "S2") = 1
    /\ RuleCount(errors, "S3") = 1

\* C9 as stated: a tested file whose name contains "-cleaned" gets no S3
\* failure when the Safety rule set runs.
C9_DashCleanedPassesS3 ==
    (AfterSafety /\ SafetyRuns(backup_path, original_path)
       /\ Contains(twb_path, <<"-","c","l","e","a","n","e","d">>)) =>
        RuleCount(errors, "S3") = 0

\* C9 amended: a tested file whose name contains "_cleaned" gets no S3
\* failure when the Safety rule set runs, also when the original path
\* given equals the tested path.
C9_UnderscoreCleanedPassesS3 ==
    (AfterSafety /\ SafetyRuns(backup_path, original_path)
       /\ Contains(twb_path, <<"_","c","l","e","a","n","e","d">>)) =>
        /\ RuleCount(errors, "S3") = 0
        /\ RuleCount(passes, "S3") = 1

\* a "_cleaned" file was tested with itself given as the original
C9_Witness ==
    /\ AfterSafety
    /\ twb_path = UnderscorePath
    /\ original_path = UnderscorePath
    /\ RuleCount(passes, "S3") = 1

(***************************************************************************)
(* Specification of validate_folders on one document, and on the same      *)
(* document after one more folder was added to <folders-common>            *)
(***************************************************************************)
MaxFolders == 3

GrowBeyond == 2

EmojiSeq == <<"E1", "E2", "E3", "E4", "E5", "E6", "E7", "E8", "E9">>

FolderChoices ==
    { Folder(<<"&","#","x","1","F","4","C","A",";"," ","M","e","t","r","i","c","s">>, None, << <<"[","A","]">>, <<"[","B","]">> >>),
      Folder(<<"E2">> \o <<" ","D","a","t","e","s">>, None, <<>>),
      Folder(<<"E1">> \o <<" ","M","e","t","r","i","c","s">>, None, << <<"[","A","]">> >>),
      Folder(<<"E1">> \o <<" ","O","t","h","e","r">>, None, <<>>),
      Folder(<<"P","l","a","i","n">>, <<"x">>, << <<"[","Z","]">> >>),
      Folder(<<"&","a","m","p",";","#","x","1","F","4","C","A",";"," ","A"," ","&","a","m","p",";"," ","B">>, None, <<>>) }

\* the k-th folder of a well-kept workbook: its own marker, no role
FreshFolder(k) == Folder(<<EmojiSeq[k]>> \o <<" ","F">>, None, <<>>)

FolderColumnLists ==
    { << Col(<<"[","A","]">>, "'", None, TRUE, <<"t","a","b","l","e","a","u">>, <<"1">>),
         Col(<<"B">>, "'", None, TRUE, <<"t","a","b","l","e","a","u">>, <<"1">>),
         Col(<<"[","N","]">>, "'", None, FALSE, None, None) >>,
      << Col(<<"[","A","]">>, "'", None, TRUE, <<"t","a","b","l","e","a","u">>, <<"1">>),
         Col(<<"[","C","]">>, "'", <<"C","o","s","t">>, TRUE, <<"t","a","b","l","e","a","u">>, <<"1">>) >> }

LayoutChoices ==
    { OkLayout,
      [OkLayout EXCEPT !.present = FALSE],
      [OkLayout EXCEPT !.show = None],
      [OkLayout EXCEPT !.before_fc = TRUE] }

\* the documents around the folders: one thing varies at a time
FolderSettings ==
    { [columns |-> cols, layout |-> OkLayout, outside |-> 0] :
        cols \in FolderColumnLists } \cup
    { [columns |-> cols, layout |-> l, outside |-> 0] :
        cols \in { c \in FolderColumnLists : Len(c) = 3 },
        l \in LayoutChoices } \cup
    { [columns |-> cols, layout |-> OkLayout, outside |-> 1] :
        cols \in { c \in FolderColumnLists : Len(c) = 3 } }

FolderFiles ==
    { [syntax_ok |-> TRUE, columns |-> d.columns,
       fc |-> [present |-> p, folders |-> fs],
       layout |-> d.layout, outside |-> d.outside] :
        d \in FolderSettings,
        p \in BOOLEAN,
        fs \in BoundedSeqs(FolderChoices, MaxFolders) }

InitFolders ==
    /\ pc = "folders_load"
    /\ argv = <<>> /\ existing = {}
    /\ file \in { f \in FolderFiles :
                     /\ WellFormed(f)
                     /\ (f.fc.present \/ f.fc.folders = <<>>) }
    /\ twb_path = None /\ backup_path = None /\ original_path = None
    /\ raw_formulas = <<>> /\ root = NoRoot /\ calculations = <<>>
    /\ idx = 0 /\ errors = <<>> /\ passes = <<>> /\ exit_code = -1
    /\ call = NoCall /\ ret = NoEntries
    /\ batch_file = NoBatchFile

\* root = ET.fromstring(content) and the list of calculated fields
LoadFolders ==
    /\ pc = "folders_load"
    /\ root' = Parse(file)
    /\ calculations' = Calculations(Parse(file))
    /\ pc' = "folders_call"
    /\ UNCHANGED <<argv, existing, file, twb_path, backup_path, original_path,
                   raw_formulas, idx, errors, passes, exit_code, call, ret>>
    /\ UNCHANGED batch_file

\* validate_folders(root, calculations, result) on a fresh result
ValidateFolders ==
    /\ pc = "folders_call"
    /\ LET r == validate_folders(root, calculations)
       IN  /\ errors' = r.errors
           /\ passes' = r.passes
    /\ pc' = "folders_ret"
    /\ UNCHANGED <<argv, existing, file, twb_path, backup_path, original_path,
                   raw_formulas, root, calculations, idx, exit_code, call, ret>>
    /\ UNCHANGED batch_file

\* the workbook gets one more folder and is to be validated again; ret
\* keeps the entries of the validation before
AddFolder ==
    /\ pc = "folders_ret"
    /\ file.fc.present
    /\ Len(file.fc.folders) < MAX_FOLDERS + GrowBeyond
    /\ file' = [file EXCEPT !.fc.folders =
                    Append(@, FreshFolder(Len(file.fc.folders) + 1))]
    /\ call' = [fn |-> "added"]
    /\ ret' = [errors |-> errors, passes |-> passes]
    /\ pc' = "folders_load"
    /\ UNCHANGED <<argv, existing, twb_path, backup_path, original_path,
                   raw_formulas, root, calculations, idx, errors, passes,
                   exit_code>>
    /\ UNCHANGED batch_file

NextFolders == LoadFolders \/ ValidateFolders \/ AddFolder

SpecFolders == InitFolders /\ [][NextFolders]_vars

\* the parsed folder names, and the markers of those that have one
FolderNames == [i \in 1..Len(root.fc.folders) |->
                   GetOr(root.fc.folders[i].name, <<>>)]

FolderMarkers ==
    Flat([i \in 1..Len(FolderNames) |->
        IF EmojiMatch(FolderNames[i]) # None
        THEN << EmojiMatch(FolderNames[i]) >> ELSE <<>>])

\* the document of C5: every folder has a leading marker of its own, the
\* folders together hold every calculated field by exact or bracketed name,
\* the layout element follows the containment element and has
\* show-structure true; and nothing else is wrong with the folders: no
\* role attribute, no ampersand in a name, no folder outside the
\* containment element, no item that is not a calculated field
C5_Document ==
    LET folders == root.fc.folders
        items == FolderItems(folders)
        fields == { items[i] : i \in 1..Len(items) }
        names == { calculations[i].name : i \in 1..Len(calculations) }
    IN  /\ pc = "folders_ret"
        /\ root.fc.present
        /\ Len(FolderMarkers) = Len(folders)
        /\ \A i, j \in 1..Len(folders) :
              i # j => FolderMarkers[i] # FolderMarkers[j]
        /\ \A n \in names : n \in fields \/ (<<"[">> \o n \o <<"]">>) \in fields
        /\ root.layout.present /\ root.layout.shared_parent
        /\ ~root.layout.before_fc
        /\ root.layout.show = <<"t","r","u","e">>
        /\ \A i \in 1..Len(folders) :
              /\ folders[i].role = None
              /\ ~Contains(FolderNames[i], <<"&">>)
        /\ root.outside = 0
        /\ \A x \in fields : x \in names \/ StripChars(x, {"[", "]"}) \in names

F1toF9 == {"F1", "F2", "F3", "F4", "F5", "F6", "F7", "F8", "F9"}

\* C5 as stated: with eight such folders no failure of F1..F9 is recorded.
C5_EightFoldersPassF1toF9 ==
    (C5_Document /\ Len(root.fc.folders) = 8) =>
        RulesOf(errors) \cap F1toF9 = {}

\* C5 amended: with at most MAX_FOLDERS = 6 such folders no failure of
\* F1..F9 is recorded; adding a seventh and then an eighth such folder
\* changes only the F9 outcome: F9 becomes one failure and every other
\* F rule has the entries it had before the folder was added.
C5_SixFoldersPassF1toF9 ==
    C5_Document =>
        /\ Len(root.fc.folders) <= MAX_FOLDERS =>
              RulesOf(errors) \cap F1toF9 = {}
        /\ Len(root.fc.folders) > MAX_FOLDERS =>
              /\ RulesOf(errors) \cap F1toF9 = {"F9"}
              /\ RuleCount(errors, "F9") = 1
              /\ RuleCount(passes, "F9") = 0
        /\ call.fn = "added" =>
              \A r \in FolderRules \ {"F9"} :
                  /\ RuleCount(errors, r) = RuleCount(ret.errors, r)
                  /\ RuleCount(passes, r) = RuleCount(ret.passes, r)

\* a seventh folder has just been added to six such folders, which passed
\* F9 before
C5_Witness ==
    /\ C5_Document
    /\ call.fn = "added"
    /\ Len(root.fc.folders) = MAX_FOLDERS + 1
    /\ RuleCount(ret.passes, "F9") = 1
    /\ RuleCount(errors, "F9") = 1

\* the F11 failures with the given message
F11Count(message) ==
    Cardinality({ i \in 1..Len(errors) :
        errors[i].rule = "F11" /\ errors[i].message = <<message>> })

\* the elements of list that occur in it more than once
Repeated(list) ==
    { list[i] : i \in { k \in 1..Len(list) :
                           \E j \in 1..Len(list) : j # k /\ list[j] = list[k] } }

Distinct(list) == { list[i] : i \in 1..Len(list) }

\* C6 as stated: the duplicate-name failures are as many as the names that
\* occur more than once, and the duplicate-marker failures as many as the
\* markers that occur more than once.
C6_OneFailurePerRepeatedName ==
    (pc = "folders_ret" /\ root.fc.present) =>
        /\ F11Count("duplicate folder name")
              = Cardinality(Repeated(FolderNames))
        /\ F11Count("duplicate emoji used in multiple folders")
              = Cardinality(Repeated(FolderMarkers))

\* C6 amended: there is one duplicate-name failure for every folder whose
\* name is the name of an earlier folder (so two folders of one name give
\* exactly one, three give two), and independently one duplicate-marker
\* failure for every folder whose marker is the marker of an earlier one.
C6_OneFailurePerRepeat ==
    (pc = "folders_ret" /\ root.fc.present) =>
        /\ F11Count("duplicate folder name")
              = Len(FolderNames) - Cardinality(Distinct(FolderNames))
        /\ F11Count("duplicate emoji used in multiple folders")
              = Len(FolderMarkers) - Cardinality(Distinct(FolderMarkers))

\* three folders of one name, of which the first is written with a
\* character reference: two duplicate-name and two duplicate-marker failures
C6_Witness ==
    /\ pc = "folders_ret"
    /\ Len(FolderNames) = 3
    /\ Cardinality(Distinct(FolderNames)) = 1
    /\ file.fc.folders[1].name # file.fc.folders[2].name
    /\ F11Count("duplicate folder name") = 2
    /\ F11Count("duplicate emoji used in multiple folders") = 2

\* the call was made on a formula that is not a bin or group calculation
\* and whose trimmed text starts with the comment marker
CommentedCall ==
    /\ pc = "comment_ret"
    /\ call.calc_class \notin BinClasses
    /\ call.formula # None
    /\ StartsWith(Strip(call.formula), <<"/","/">>)

\* the M3 failures recorded by the call, by the kind named in their message
M3Kinds == { errors[i].message[1] : i \in { k \in 1..Len(errors) : errors[k].rule = "M3" } }

\* the first line of the formula is exactly "// calculation"
C11_FirstLineIsCalculation ==
    /\ call.formula # None
    /\ SplitFirst(call.formula, <<"\n">>) = <<"/","/"," ","c","a","l","c","u","l","a","t","i","o","n">>

M3Short == Len(CommentText(Strip(call.formula))) < MIN_COMMENT_LENGTH

M3Lazy == IsLazyLine(CommentLine(Strip(call.formula)))

M3RestatesCaption ==
    /\ call.caption # None
    /\ Strip(Replace(Replace(Lower(call.caption), <<"_">>, <<" ">>), <<"-">>, <<" ">>))
         = Lower(CommentText(Strip(call.formula)))

WordAround(s, i) ==
    LET a == CHOOSE j \in 1..i :
                 /\ \A k \in j..i : ~IsSpace(s[k])
                 /\ (j = 1 \/ IsSpace(s[j - 1]))
        b == CHOOSE j \in i..Len(s) :
                 /\ \A k \in i..j : ~IsSpace(s[k])
                 /\ (j = Len(s) \/ IsSpace(s[j + 1]))
    IN  SubSeq(s, a, b)

\* caption and expected differ, if at all, only inside words of the caption
\* that are acronym-set words in some casing
OnlyAcronymCasingDiffers(caption, expected) ==
    /\ Len(caption) = Len(expected)
    /\ \A i \in 1..Len(caption) :
          caption[i] # expected[i] =>
              /\ ~IsSpace(caption[i])
              /\ Upper(WordAround(caption, i)) \in ACRONYMS

\* C12: for a field with a caption, if the caption is not equal to
\* to_title_case(caption) and the difference is not solely the casing of
\* acronym-set words, validate_caption records a C1 failure.
C12_NotTitleCaseFailsC1 ==
    (pc = "caption_ret" /\ Truthy(call.caption)) =>
        ((/\ call.caption # to_title_case(call.caption)
          /\ ~OnlyAcronymCasingDiffers(call.caption, to_title_case(call.caption)))
            => RuleCount(errors, "C1") >= 1)

\* C13: if the workbook file cannot be read, validate_workbook records a
\* single failure entry under the well-formedness rule and returns, so the
\* process exits 1 through the normal result path and not on an unhandled
\* error before any result entry exists.
C13_UnreadableFileIsX1Failure ==
    (pc = "exit" /\ argv # <<>> /\ twb_path \notin existing) =>
        /\ exit_code = 1
        /\ Len(errors) = 1
        /\ errors[1].rule = "X1"
        /\ call.fn # "uncaught exception"

\* the names the folder items of the parsed document carry
C15_ItemNames ==
    { FolderItems(root.fc.folders)[i] : i \in 1..Len(FolderItems(root.fc.folders)) }

\* the condition under which each of F1 and F3..F11 is violated by the
\* parsed document, stated for each rule on its own
C15_Violated(r) ==
    CASE r = "F1" ->
            \E i \in 1..Len(calculations) :
                /\ calculations[i].name \notin C15_ItemNames
                /\ (<<"[">> \o calculations[i].name \o <<"]">>) \notin C15_ItemNames
      [] r = "F3" ->
            root.layout.present /\ root.layout.shared_parent /\ root.layout.before_fc
      [] r = "F4" -> root.outside > 0
      [] r = "F5" -> \E i \in 1..Len(root.fc.folders) : Truthy(root.fc.folders[i].role)
      [] r = "F6" ->
            \E x \in C15_ItemNames :
                \A i \in 1..Len(calculations) :
                    calculations[i].name \notin { x, StripChars(x, {"[", "]"}) }
      [] r = "F7" -> root.layout.present /\ root.layout.show # <<"t","r","u","e">>
      [] r = "F8" ->
            \E i \in 1..Len(FolderNames) :
                /\ Contains(FolderNames[i], <<"&">>)
                /\ ~Contains(FolderNames[i], <<"&","a","m","p",";">>)
      [] r = "F9" -> Len(root.fc.folders) > MAX_FOLDERS
      [] r = "F10" -> \E i \in 1..Len(FolderNames) : EmojiMatch(FolderNames[i]) = None
      [] r = "F11" ->
            \/ \E i, j \in 1..Len(FolderNames) : i < j /\ FolderNames[i] = FolderNames[j]
            \/ \E i, j \in 1..Len(FolderMarkers) : i < j /\ FolderMarkers[i] = FolderMarkers[j]

\* the rules that record a pass when they hold, and when they have a subject
C15_HasSubject(r) ==
    CASE r = "F3" -> root.layout.present /\ root.layout.shared_parent
      [] r = "F7" -> root.layout.present
      [] r \in {"F4", "F9"} -> TRUE

\* C15: without a containment element validate_folders records exactly one
\* F2 failure and no entry of F1 or F3..F11; with the element present F2
\* passes and every remaining rule is evaluated on its own: it fails exactly
\* when the document violates it, whatever the other rules found, and the
\* rules that record a pass record exactly one verdict.
C15_F2GatesAndRestIndependent ==
    pc = "folders_ret" =>
        IF ~root.fc.present
        THEN /\ Len(errors) = 1 /\ errors[1].rule = "F2"
             /\ passes = <<>>
        ELSE /\ RuleCount(passes, "F2") = 1 /\ RuleCount(errors, "F2") = 0
             /\ \A r \in FolderRules \ {"F2"} :
                   (RuleCount(errors, r) >= 1) <=> C15_Violated(r)
             /\ \A r \in {"F3", "F4", "F7", "F9"} :
                   RuleCount(errors, r) + RuleCount(passes, r)
                     = IF C15_HasSubject(r) THEN 1 ELSE 0

\* a document with a folder outside the containment element was validated
\* and the failures of five other rules are recorded next to F4's
C15_Witness ==
    /\ pc = "folders_ret"
    /\ root.fc.present
    /\ {"F4", "F5", "F6", "F8", "F10", "F11"} \subseteq RulesOf(errors)
    /\ RuleCount(passes, "F2") = 1

\* C16: F8 fails exactly the folder names that contain, in the raw source
\* text, an ampersand that is not entity-escaped; a folder whose raw name
\* holds ampersands only in escaped form ("&amp;") receives no F8 failure.
C16_F8FailsOnlyRawAmpersand ==
    (pc = "folders_ret" /\ root.fc.present) =>
        \A i \in 1..Len(file.fc.folders) :
            (\E k \in 1..Len(errors) :
                /\ errors[k].rule = "F8"
                /\ errors[k].field = GetOr(Attr(file.fc.folders[i].name), <<>>))
              <=> HasBareAmpersand(GetOr(file.fc.folders[i].name, <<>>))

\* the columns of the file have names of their own
C17_DistinctNames ==
    \A i, j \in 1..Len(file.columns) :
        i # j => file.columns[i].name # file.columns[j].name

\* C17: for a well-formed document and every calculated field whose name
\* is a key of the raw-formula index, the indexed raw value is that field's
\* own formula attribute text (decoded, it is the parsed formula), and no
\* key is associated with the formula of a different column.
C17_IndexHoldsOwnFormula ==
    (root.parsed /\ C17_DistinctNames) =>
        \A i \in 1..Len(file.columns) :
            LET c == file.columns[i]
            IN  (c.has_calc /\ Attr(c.name) \in DOMAIN raw_formulas) =>
                    /\ raw_formulas[Attr(c.name)] = c.formula
                    /\ Attr(raw_formulas[Attr(c.name)]) = root.columns[i].formula

\* s is a prefix of t
IsPrefix(s, t) == Len(s) <= Len(t) /\ SubSeq(t, 1, Len(s)) = s

\* the place of a rule's rule set in the fixed order of the run
GroupOf(rule) ==
    CASE rule = "X1" -> 1
      [] rule \in CaptionRules -> 2
      [] rule \in CommentRules -> 3
      [] rule \in FolderRules -> 4
      [] rule \in SafetyRules -> 5

\* the name under which the entries of the k-th calculated field are filed
C18_DisplayName(k) == Or(calculations[k].caption, calculations[k].name)

\* the failures are grouped by rule set, in the order of the run
C18_Grouped ==
    \A i, j \in 1..Len(errors) :
        i < j => GroupOf(errors[i].rule) <= GroupOf(errors[j].rule)

\* the Caption failures, and the Comment failures, come in document order
\* of the fields
C18_FieldOrder ==
    \A i, j \in 1..Len(errors) :
        (/\ i < j
         /\ GroupOf(errors[i].rule) = GroupOf(errors[j].rule)
         /\ GroupOf(errors[i].rule) \in {2, 3}) =>
            \E a, b \in 1..Len(calculations) :
                /\ a <= b
                /\ C18_DisplayName(a) = errors[i].field
                /\ C18_DisplayName(b) = errors[j].field

\* C18: during a run the pass sequence and the failure sequence only grow
\* (each earlier sequence is a prefix of every later one), and in the final
\* failure sequence the entries are grouped in the order XML, Caption,
\* Comment, Folder, Safety, the entries of one rule set in document order
\* of the fields.
C18_AppendOnlyAndGrouped ==
    /\ [][IsPrefix(errors, errors') /\ IsPrefix(passes, passes')]_vars
    /\ [](pc = "exit" => (C18_Grouped /\ C18_FieldOrder))

\* a run over two fields has ended with Caption and Comment failures for
\* both of them, a Folder failure and a Safety failure
C18_Witness ==
    /\ pc = "exit"
    /\ Len(calculations) = 2
    /\ \A k \in 1..2 : \E i, j \in 1..Len(errors) :
          /\ errors[i].field = C18_DisplayName(k) /\ GroupOf(errors[i].rule) = 2
          /\ errors[j].field = C18_DisplayName(k) /\ GroupOf(errors[j].rule) = 3
    /\ {"F2", "S2"} \subseteq RulesOf(errors)

(***************************************************************************)
(* The batch tracker (scripts/batch_comments.py).  The tracking file       *)
(* .cleanup/comment_batches.json is the variable batch_file; of its data   *)
(* the model keeps total_calcs and, per batch, num, status and calcs (the  *)
(* remaining keys are only printed).  Each command is one process run.     *)
(***************************************************************************)
BATCH_SIZE == 10

\* lines 45-75: what the loop of extract_calculations appends for one
\* parsed <column> element
ExtractColumn(col) ==
    IF \/ ~col.has_calc
       \/ col.class \in BinClasses
       \/ col.formula = None
    THEN <<>>
    ELSE << [name |-> GetOr(col.name, <<>>),
             caption |-> GetOr(col.caption, <<>>),
             formula |-> col.formula,
             current_comment |->
                 IF StartsWith(Strip(col.formula), <<"/","/">>)
                 THEN SplitFirst(Strip(col.formula), <<"\n">>)
                 ELSE None] >>

\* extract_calculations: the calculated fields with a formula, bins skipped
extract_calculations(f) ==
    Flat([i \in 1..Len(f.columns) |->
            CHOOSE r \in { ExtractColumn(col) :
                              col \in { ParseColumn(f.columns[i]) } } : TRUE])

\* {c['name']: c for c in extract_calculations(twb_path)}.get(name): the
\* last extracted field of that name as a one-element sequence, or the
\* empty sequence for None
CurrentCalc(calcs, name) ==
    LET at == { i \in 1..Len(calcs) : calcs[i].name = name }
    IN  IF at = {} THEN <<>>
        ELSE << calcs[CHOOSE i \in at : \A j \in at : j <= i] >>

\* the batches init_batches creates: calcs[i:i + BATCH_SIZE] for
\* i in range(0, len(calcs), BATCH_SIZE)
NewBatches(calcs) ==
    [k \in 1..((Len(calcs) + BATCH_SIZE - 1) \div BATCH_SIZE) |->
        [num |-> k,
         status |-> "pending",
         calcs |-> [i \in 1..(IF k * BATCH_SIZE <= Len(calcs)
                              THEN BATCH_SIZE
                              ELSE Len(calcs) - (k - 1) * BATCH_SIZE) |->
                       calcs[(k - 1) * BATCH_SIZE + i].name]]]

\* ^//\s*(this|the|a|an)\s+\w+\s*$
DoneLazyPattern3(s) ==
    LET A == ReAlt(s, ReMarker(s), { <<"t","h","i","s">>, <<"t","h","e">>, <<"a">>, <<"a","n">> })
    IN  ReEnd(s, ReSpaces(s, ReWordChars(s, ReSpaces(s, A, 1), 1, Len(s)), 0))

\* any(re.match(p, comment, re.IGNORECASE) for p in lazy_patterns), with
\* the lazy_patterns of mark_batch_done
DoneIsLazy(comment) ==
    \/ LazyPattern1(comment)
    \/ LazyPattern3(comment)
    \/ DoneLazyPattern3(comment)

\* accepts every comment that is there, whatever its text
DoneIssueMissingOnly(calc) ==
    IF calc = <<>> THEN "none"
    ELSE IF calc[1].current_comment = None THEN "missing"
    ELSE "none"

\* the verdict of mark_batch_done's loop body on one field of the batch
DoneIssue(calc) ==
    IF calc = <<>> THEN "none"
    ELSE IF calc[1].current_comment = None THEN "missing"
    ELSE IF Len(Strip(Replace(calc[1].current_comment, <<"/","/">>, <<>>))) < 15
    THEN "too short"
    ELSE IF DoneIsLazy(calc[1].current_comment) THEN "generic/lazy pattern"
    ELSE "none"

\* the first batch of the tracking data whose num is n, or 0
FindBatch(batches, n) ==
    LET at == { i \in 1..Len(batches) : batches[i].num = n }
    IN  IF at = {} THEN 0 ELSE CHOOSE i \in at : \A j \in at : i <= j

\* the number of calculated fields of the workbook
MaxFields == 11

\* the batch numbers given to 'done'
MaxBatchNum == 3

\* the fields whose formula is edited: two of the first batch, one of the second
EditedFields == { 1, 2, BATCH_SIZE + 1 }

FieldLetters == <<"a","b","c","d","e","f","g","h","i","j","k","l","m","n">>

FieldName(i) == <<"[","F">> \o << FieldLetters[i] >> \o <<"]">>

CommentedFormula == <<"/","/"," ","e","x","p","l","a","i","n","s"," ","w","h","y"," ","i","t"," ","i","s"," ","n","e","e","d","e","d","&","#","1","0",";","1">>

BatchFormulas ==
    { <<"1">>,
      <<"/","/"," ","c","a","l","c","u","l","a","t","i","o","n","&","#","1","0",";","1">>,
      <<"/","/"," ","c","a","l","c","u","l","a","t","e","d"," ","f","i","e","l","d","&","#","1","0",";","1">>,
      <<"/","/"," ","s","u","m"," ","o","f"," ","s","a","l","e","s"," ","b","y"," ","r","e","g","i","o","n","&","#","1","0",";","1">>,
      CommentedFormula }

\* a workbook of MaxFields calculated fields; the edited ones are not yet
\* commented, the others carry a comment
BatchWorkbook ==
    File(TRUE,
         [i \in 1..MaxFields |->
             Col(FieldName(i), "'", None, TRUE, <<"t","a","b","l","e","a","u">>,
                 IF i \in EditedFields THEN <<"1">>
                 ELSE CommentedFormula)],
         NoFc)

\* the workbook exists, 'init' has not been run yet
InitBatch ==
    /\ pc = "batch"
    /\ file = BatchWorkbook
    /\ batch_file = NoBatchFile
    /\ argv = <<>> /\ existing = { PlainPath } /\ twb_path = PlainPath
    /\ backup_path = None /\ original_path = None
    /\ raw_formulas = <<>> /\ root = NoRoot /\ calculations = <<>>
    /\ idx = 0 /\ errors = <<>> /\ passes = <<>> /\ exit_code = -1
    /\ call = NoCall
    /\ ret = NoEntries

\* python batch_comments.py <twb_file> init
InitBatches ==
    /\ pc = "batch"
    /\ \E calcs \in { extract_calculations(file) } :
           IF calcs = <<>>
           THEN /\ call' = [fn |-> "init", num |-> 0, out |-> "no calculations"]
                /\ UNCHANGED batch_file
           ELSE /\ call' = [fn |-> "init", num |-> 0, out |-> "created"]
                /\ batch_file' = [exists |-> TRUE, total_calcs |-> Len(calcs),
                                  batches |-> NewBatches(calcs)]
    /\ UNCHANGED <<pc, argv, existing, file, twb_path, backup_path,
                   original_path, raw_formulas, root, calculations, idx,
                   errors, passes, exit_code, ret>>

\* python batch_comments.py <twb_file> next: prints the first pending batch
ShowNextBatch ==
    /\ pc = "batch"
    /\ LET pending == { i \in 1..Len(batch_file.batches) :
                          batch_file.batches[i].status = "pending" }
       IN  call' = IF ~batch_file.exists
                   THEN [fn |-> "next", num |-> 0, out |-> "no batches"]
                   ELSE IF pending = {}
                   THEN [fn |-> "next", num |-> 0, out |-> "all complete"]
                   ELSE [fn |-> "next",
                         num |-> batch_file.batches[
                                   CHOOSE i \in pending : \A j \in pending : i <= j].num,
                         out |-> "batch"]
    /\ UNCHANGED <<pc, argv, existing, file, twb_path, backup_path,
                   original_path, raw_formulas, root, calculations, idx,
                   errors, passes, exit_code, ret, batch_file>>

\* python batch_comments.py <twb_file> done <batch_num>
MarkBatchDone ==
    /\ pc = "batch"
    /\ \E batch_num \in 1..MaxBatchNum :
          LET b == FindBatch(batch_file.batches, batch_num)
          IN  IF ~batch_file.exists
              THEN /\ call' = [fn |-> "done", num |-> batch_num, out |-> "no batches"]
                   /\ UNCHANGED batch_file
              ELSE IF b = 0
              THEN /\ call' = [fn |-> "done", num |-> batch_num, out |-> "not found"]
                   /\ UNCHANGED batch_file
              ELSE \E current \in { extract_calculations(file) } :
                   IF \E i \in 1..Len(batch_file.batches[b].calcs) :
                         \E calc \in { CurrentCalc(current,
                                            batch_file.batches[b].calcs[i]) } :
                             DoneIssue(calc) # "none"
                   THEN /\ call' = [fn |-> "done", num |-> batch_num, out |-> "issues"]
                        /\ UNCHANGED batch_file
                   ELSE /\ call' = [fn |-> "done", num |-> batch_num, out |-> "complete"]
                        /\ batch_file' = [batch_file EXCEPT
                                             !.batches[b].status = "complete"]
    /\ UNCHANGED <<pc, argv, existing, file, twb_path, backup_path,
                   original_path, raw_formulas, root, calculations, idx,
                   errors, passes, exit_code, ret>>

\* python batch_comments.py <twb_file> status
ShowStatus ==
    /\ pc = "batch"
    /\ call' = [fn |-> "status", num |-> 0,
                out |-> IF batch_file.exists THEN "progress" ELSE "no batches"]
    /\ UNCHANGED <<pc, argv, existing, file, twb_path, backup_path,
                   original_path, raw_formulas, root, calculations, idx,
                   errors, passes, exit_code, ret, batch_file>>

\* python batch_comments.py <twb_file> reset
ResetBatches ==
    /\ pc = "batch"
    /\ call' = [fn |-> "reset", num |-> 0,
                out |-> IF batch_file.exists THEN "reset" ELSE "no batch file"]
    /\ batch_file' = NoBatchFile
    /\ UNCHANGED <<pc, argv, existing, file, twb_path, backup_path,
                   original_path, raw_formulas, root, calculations, idx,
                   errors, passes, exit_code, ret>>

\* between two commands the workbook is edited: one field gets another
\* formula; the second field gets or loses a comment, or loses its formula
\* attribute
EditWorkbook ==
    /\ pc = "batch"
    /\ \E i \in EditedFields, f \in BatchFormulas \cup { None } :
          /\ i <= Len(file.columns)
          /\ i = 2 => f \in { None, <<"1">>, CommentedFormula }
          /\ i # 2 => f # None
          /\ file.columns[i].formula # f
          /\ file' = [file EXCEPT !.columns[i].formula = f]
    /\ call' = [fn |-> "edit", num |-> 0, out |-> "edited"]
    /\ UNCHANGED <<pc, argv, existing, twb_path, backup_path,
                   original_path, raw_formulas, root, calculations, idx,
                   errors, passes, exit_code, ret, batch_file>>

NextBatch ==
    \/ InitBatches
    \/ ShowNextBatch
    \/ MarkBatchDone
    \/ ShowStatus
    \/ ResetBatches
    \/ EditWorkbook

SpecBatch == InitBatch /\ [][NextBatch]_vars

\* the fields of the batch at index b of the tracking data that the
\* workbook still holds, as extract_calculations finds them by name
C19_PresentFields(b) ==
    LET current == extract_calculations(file)
        names == batch_file.batches[b].calcs
    IN  { current[i] : i \in { k \in 1..Len(current) :
                                 \E j \in 1..Len(names) : names[j] = current[k].name } }

\* the field has no leading comment, or its comment is shorter than 15
\* characters or matches a lazy pattern of mark_batch_done
C19_NeedsWork(calc) ==
    \/ ~StartsWith(Strip(calc.formula), <<"/","/">>)
    \/ LET comment == SplitFirst(Strip(calc.formula), <<"\n">>)
       IN  \/ Len(Strip(Replace(comment, <<"/","/">>, <<>>))) < 15
           \/ DoneIsLazy(comment)

\* the statuses of the batches, in the order of the tracking file
C19_Statuses(data) == [k \in 1..Len(data.batches) |-> data.batches[k].status]

\* C19: 'done N' marks batch N complete only after verification: if a field
\* of batch N still present in the workbook has no leading comment, or a
\* comment that is too short or lazy, the tracking file is left unchanged
\* (the status stays as it was); 'done N' never changes the status of
\* another batch; and 'next', 'status' and 'done' never set a complete
\* batch back to pending.
C19_DoneOnlyAfterVerification ==
    [][/\ call'.fn = "done" =>
            LET b == FindBatch(batch_file.batches, call'.num)
            IN  /\ (b # 0 /\ \E calc \in C19_PresentFields(b) : C19_NeedsWork(calc))
                      => batch_file' = batch_file
                /\ Len(batch_file'.batches) = Len(batch_file.batches)
                /\ \A k \in 1..Len(batch_file.batches) :
                      k # b => batch_file'.batches[k] = batch_file.batches[k]
       /\ call'.fn \in {"next", "status", "done"} =>
            /\ Len(batch_file'.batches) = Len(batch_file.batches)
            /\ \A k \in 1..Len(batch_file.batches) :
                  batch_file.batches[k].status = "complete"
                     => batch_file'.batches[k].status = "complete"]_vars

\* 'done 1' was refused because a field of batch 1 carries a long enough
\* but lazy comment, while batch 2 is complete and stays so
C19_Witness ==
    /\ call.fn = "done" /\ call.num = 1 /\ call.out = "issues"
    /\ C19_Statuses(batch_file) = <<"pending", "complete">>
    /\ \E calc \in C19_PresentFields(1) :
          /\ StartsWith(Strip(calc.formula), <<"/","/">>)
          /\ Len(Strip(Replace(SplitFirst(Strip(calc.formula), <<"\n">>),
                               <<"/","/">>, <<>>))) >= 15
          /\ C19_NeedsWork(calc)

\* C20: whenever 'done N' marks batch N complete, validate_comment run on
\* each field of batch N present in the workbook records no M1 failure and
\* no M3 failure for it.
C20_DoneAgreesWithValidator ==
    (call.fn = "done" /\ call.out = "complete") =>
        \A b \in { FindBatch(batch_file.batches, call.num) } :
        \A raw \in { BuildIndex(file) } :
        \A i \in 1..Len(file.columns) :
        \A col \in { ParseColumn(file.columns[i]) } :
            (/\ col.has_calc
             /\ \E j \in 1..Len(batch_file.batches[b].calcs) :
                   batch_file.batches[b].calcs[j] = col.name) =>
                \A r \in { validate_comment(col.formula, col.caption, col.name,
                                            Get(raw, col.name), col.class) } :
                    /\ RuleCount(r.errors, "M1") = 0
                    /\ RuleCount(r.errors, "M3") = 0

\* C10: to_title_case is idempotent: applied to its own result it returns
\* that result unchanged, for every bounded input text.
C10_TitleCaseIdempotent ==
    pc = "title_twice" => ret[2] = ret[1]

\* an input with an underscore, an acronym in the wrong case and a
\* mixed-case word has been title-cased twice
C10_Witness ==
    /\ pc = "title_twice"
    /\ call.text = <<"i","d","_","a","B">>
    /\ ret[1] = <<"I","D"," ","A","b">>
====
